---------------------------- MODULE Spec2Model ----------------------------
(***************************************************************************)
(* Model of the circuit designer: the CircuitEngine text parser and SVG    *)
(* scene generator (src/unnamed/part_001) and the snippets the controller  *)
(* (src/main.js) inserts into the editor.                                  *)
(*                                                                         *)
(* Text is a sequence of one-character strings, so that trimming, line     *)
(* splitting and the two regular expressions of parseLine are computed     *)
(* character by character, as the JavaScript does.                         *)
(***************************************************************************)
EXTENDS Integers, Sequences, FiniteSets, TLC

VARIABLES
    code,         \* editor.getValue(): the editor text
    components,   \* circuitEngine.components
    connections,  \* circuitEngine.connections
    parsed,       \* the last parseCircuitCode call: its argument and outcome
    svg,          \* children of the #circuit-svg element, in document order
    rendered,     \* the last circuitEngine.generateCircuit call and its outcome
    zoom,         \* circuitEngine.zoom, in thousandths
    zoomed,       \* the last zoomIn or zoomOut call and the transform it applied
    validation,   \* the last validateCircuitCode call: its argument and result
    notification, \* the .message elements of the page, in document order
    uncaught,     \* the exceptions that left a handler or a callback uncaught
    button,       \* the Generate button: its loading label and its disabled flag
    generated,    \* the last generateCircuit call of the controller
    timers,       \* the pending setTimeout callbacks, in the order they were set
    now,          \* the time in milliseconds
    debounced,    \* the last text change and the debounce callbacks run since
    sim,          \* the fields of simulationEngine
    exports       \* the exportPNG calls made, with what became of each

engineVars == <<components, connections, parsed, svg, rendered>>
viewVars == <<zoom, zoomed>>
pageVars == <<notification, uncaught, button, generated, sim, exports>>
timeVars == <<timers, now, debounced>>

vars == <<code, engineVars, viewVars, validation, pageVars, timeVars>>

-----------------------------------------------------------------------------
(* Bounds of the model *)

\* lines the editor text may hold in Spec
MaxLines == 3
\* insertComponent calls in SpecInsert
MaxInserts == 2

-----------------------------------------------------------------------------
(* Characters and strings *)

UpperSeq == <<"A","B","C","D","E","F","G","H","I","J","K","L","M","N","O","P","Q","R","S","T","U","V","W","X","Y","Z">>
LowerSeq == <<"a","b","c","d","e","f","g","h","i","j","k","l","m","n","o","p","q","r","s","t","u","v","w","x","y","z">>
DigitSeq == <<"0","1","2","3","4","5","6","7","8","9">>

Range(f) == {f[i] : i \in DOMAIN f}

\* the regular expression classes \d, \w, [\w.] and \s
DigitChars == Range(DigitSeq)
WordChars == Range(UpperSeq) \cup Range(LowerSeq) \cup DigitChars \cup {"_"}
ValueChars == WordChars \cup {"."}
SpaceChars == {" ", "\t", "\n", "\r"}

\* String.prototype.toLowerCase, one character
toLowerChar(c) ==
    IF c \in Range(UpperSeq)
    THEN LowerSeq[CHOOSE i \in DOMAIN UpperSeq : UpperSeq[i] = c]
    ELSE c

toLowerCase(s) == [i \in DOMAIN s |-> toLowerChar(s[i])]

toUpperChar(c) ==
    IF c \in Range(LowerSeq)
    THEN UpperSeq[CHOOSE i \in DOMAIN LowerSeq : LowerSeq[i] = c]
    ELSE c

toUpperCase(s) == [i \in DOMAIN s |-> toUpperChar(s[i])]

\* the string a character sequence spells
RECURSIVE Join(_)
Join(s) == IF s = <<>> THEN "" ELSE Head(s) \o Join(Tail(s))

\* String.prototype.trim
RECURSIVE trimStart(_)
trimStart(s) ==
    IF s # <<>> /\ Head(s) \in SpaceChars THEN trimStart(Tail(s)) ELSE s

RECURSIVE trimEnd(_)
trimEnd(s) ==
    IF s # <<>> /\ s[Len(s)] \in SpaceChars
    THEN trimEnd(SubSeq(s, 1, Len(s) - 1))
    ELSE s

trim(s) == trimEnd(trimStart(s))

\* String.prototype.startsWith
startsWith(s, p) == Len(s) >= Len(p) /\ SubSeq(s, 1, Len(p)) = p

\* String.prototype.includes
includes(s, p) ==
    \E i \in 1..(Len(s) - Len(p) + 1) : SubSeq(s, i, i + Len(p) - 1) = p

\* the index of the first c in s at or after i, Len(s) + 1 if there is none
RECURSIVE indexOf(_, _, _)
indexOf(s, c, i) == IF i > Len(s) \/ s[i] = c THEN i ELSE indexOf(s, c, i + 1)

\* code.split('\n')
RECURSIVE split(_)
split(s) ==
    LET i == indexOf(s, "\n", 1)
    IN  IF i > Len(s) THEN <<s>>
        ELSE <<SubSeq(s, 1, i - 1)>> \o split(SubSeq(s, i + 1, Len(s)))

-----------------------------------------------------------------------------
(* JavaScript values stored in a component's x and y *)

Undefined == [tag |-> "undefined"]
\* a string: the text of a capture group that took part in the match
Str(chars) == [tag |-> "string", chars |-> chars]
NaN == [tag |-> "NaN"]
Num(n) == [tag |-> "number", num |-> n]
\* the { x, y } object autoPosition returns
Point(px, py) == [tag |-> "object", x |-> px, y |-> py]

\* the value of one decimal digit
digitValue(c) == (CHOOSE i \in DOMAIN DigitSeq : DigitSeq[i] = c) - 1

RECURSIVE decimal(_)
decimal(s) ==
    IF s = <<>> THEN 0
    ELSE 10 * decimal(SubSeq(s, 1, Len(s) - 1)) + digitValue(s[Len(s)])

\* parseInt of a capture group: undefined gives NaN, \d+ gives its number
parseInt(v) == IF v.tag = "undefined" THEN NaN ELSE Num(decimal(v.chars))

\* JavaScript truthiness of a value parseInt can return
truthy(v) == v.tag = "number" /\ v.num # 0

\* a || b
or(a, b) == IF truthy(a) THEN a ELSE b

-----------------------------------------------------------------------------
(* The two regular expressions of parseLine.                               *)
(*                                                                         *)
(* Both patterns are anchored and every repetition in them is followed by  *)
(* a character outside the repeated class (or by the end of the line), so  *)
(* the longest run is the only one a match can use: scanning left to right *)
(* decides the match and gives the capture groups.                         *)

NoMatch == [matched |-> FALSE]

\* the index after the longest run of characters of S that starts at i
RECURSIVE span(_, _, _)
span(s, i, S) == IF i <= Len(s) /\ s[i] \in S THEN span(s, i + 1, S) ELSE i

\* whether character c stands at index i
at(s, i, c) == i <= Len(s) /\ s[i] = c

\* (?:\s+\((\d+),\s*(\d+)\))?$ tried at index p: the optional position group
\* and then the end of the line
positionGroup(s, p) ==
    LET f == span(s, p, SpaceChars)
        g == span(s, f + 1, DigitChars)
        h == span(s, g + 1, SpaceChars)
        k == span(s, h, DigitChars)
    IN  IF /\ f > p /\ at(s, f, "(")
           /\ g > f + 1 /\ at(s, g, ",")
           /\ k > h /\ at(s, k, ")")
           /\ k = Len(s)
        THEN [matched |-> TRUE, x |-> Str(SubSeq(s, f + 1, g - 1)), y |-> Str(SubSeq(s, h, k - 1))]
        ELSE IF p = Len(s) + 1
        THEN [matched |-> TRUE, x |-> Undefined, y |-> Undefined]
        ELSE NoMatch

\* line.match(/^(\w+):\s*(\w+)(?:\s+([\w.]+))?(?:\s+\((\d+),\s*(\d+)\))?$/)
componentMatch(s) ==
    LET a == span(s, 1, WordChars)
        b == span(s, a + 1, SpaceChars)
        c == span(s, b, WordChars)
        d == span(s, c, SpaceChars)
        e == span(s, d, ValueChars)
        hasValue == d > c /\ e > d
        pos == positionGroup(s, IF hasValue THEN e ELSE c)
    IN  IF a > 1 /\ at(s, a, ":") /\ c > b /\ pos.matched
        THEN [matched |-> TRUE,
              name |-> SubSeq(s, 1, a - 1),
              type |-> SubSeq(s, b, c - 1),
              value |-> IF hasValue THEN Str(SubSeq(s, d, e - 1)) ELSE Undefined,
              x |-> pos.x,
              y |-> pos.y]
        ELSE NoMatch

\* line.match(/^(\w+)\s*->\s*(\w+)$/)
connectionMatch(s) ==
    LET a == span(s, 1, WordChars)
        b == span(s, a, SpaceChars)
        c == span(s, b + 2, SpaceChars)
        d == span(s, c, WordChars)
    IN  IF a > 1 /\ at(s, b, "-") /\ at(s, b + 1, ">") /\ d > c /\ d = Len(s) + 1
        THEN [matched |-> TRUE, from |-> SubSeq(s, 1, a - 1), to |-> SubSeq(s, c, d - 1)]
        ELSE NoMatch

-----------------------------------------------------------------------------
(* CircuitEngine: the parser *)

\* the engine's two lists
Lists(comps, conns) == [components |-> comps, connections |-> conns]

\* constructor: this.components = []; this.connections = []
NewEngine == Lists(<<>>, <<>>)

gridSize == 100
cols == 7

\* autoPosition(): the grid slot of the next component, as an { x, y } object
autoPosition(eng) ==
    LET index == Len(eng.components)
    IN  Point(100 + (index % cols) * gridSize, 100 + (index \div cols) * gridSize)

\* value || ''
valueOrEmpty(v) == IF v.tag = "undefined" THEN "" ELSE Join(v.chars)

\* the record parseLine pushes for a component match
componentRecord(eng, m) ==
    [name |-> Join(m.name),
     type |-> Join(toLowerCase(m.type)),
     value |-> valueOrEmpty(m.value),
     x |-> or(parseInt(m.x), autoPosition(eng)),
     y |-> or(parseInt(m.y), autoPosition(eng))]

\* the auto-connection branch with the inner test dropped and the last
\* component taken for the current one
autoConnectionLive(eng, line, m) ==
    IF Len(eng.components) > 0 /\ ~includes(line, <<"-", ">">>)
    THEN LET lastComponent == eng.components[Len(eng.components)]
         IN  Lists(eng.components,
                   Append(eng.connections,
                          [from |-> lastComponent.name, to |-> lastComponent.name]))
    ELSE eng

\* the implicit series connection branch of parseLine, reached only when
\* neither expression matched (m is the component match, then null);
\* currentComponent is this.components[this.components.length]: undefined
autoConnection(eng, line, m) ==
    IF Len(eng.components) > 0 /\ ~includes(line, <<"-", ">">>)
    THEN LET lastComponent == eng.components[Len(eng.components)]
             currentDefined == Len(eng.components) + 1 \in DOMAIN eng.components
         IN  IF m.matched /\ currentDefined
             THEN Lists(eng.components,
                        Append(eng.connections,
                               [from |-> lastComponent.name,
                                to |-> eng.components[Len(eng.components) + 1].name]))
             ELSE eng
    ELSE eng

\* parseLine(line)
parseLine(eng, line) ==
    LET m == componentMatch(line)
        c == connectionMatch(line)
    IN  IF m.matched
        THEN Lists(Append(eng.components, componentRecord(eng, m)), eng.connections)
        ELSE IF c.matched
        THEN Lists(eng.components,
                   Append(eng.connections, [from |-> Join(c.from), to |-> Join(c.to)]))
        ELSE autoConnection(eng, line, m)

\* line => line.trim() && !line.trim().startsWith('//')
keepLine(line) == trim(line) # <<>> /\ ~startsWith(trim(line), <<"/", "/">>)

\* a scan that stops at the first blank or comment line instead of skipping it
RECURSIVE filterLinesUntil(_)
filterLinesUntil(lines) ==
    IF lines = <<>> \/ ~keepLine(Head(lines)) THEN <<>>
    ELSE <<Head(lines)>> \o filterLinesUntil(Tail(lines))

\* code.split('\n').filter(...) applied to the split lines
filterLines(lines) == SelectSeq(lines, keepLine)

\* for (const line of lines) this.parseLine(line.trim())
RECURSIVE parseLines(_, _)
parseLines(eng, lines) ==
    IF lines = <<>> THEN eng
    ELSE parseLines(parseLine(eng, trim(Head(lines))), Tail(lines))

\* the lists left as the earlier calls filled them
keepLists(eng) == eng

\* this.components = []; this.connections = []
resetLists(eng) == Lists(<<>>, <<>>)

\* the emptiness test without trim()
isEmptyUntrimmed(text) == text = <<>>

\* !code.trim()
isEmpty(text) == trim(text) = <<>>

\* the test taken over both lists
nothingParsed(eng) == Len(eng.components) = 0 /\ Len(eng.connections) = 0

\* this.components.length === 0
noComponents(eng) == Len(eng.components) = 0

EmptyInput == "Please enter circuit code"
NoComponents == "No valid components found in code"

Thrown(text, msg) ==
    [code |-> text, status |-> "thrown", message |-> msg,
     components |-> <<>>, connections |-> <<>>]
Returned(text, eng) ==
    [code |-> text, status |-> "returned", message |-> "",
     components |-> eng.components, connections |-> eng.connections]

\* parseCircuitCode(code) on an engine holding eng: the lists it leaves in the
\* engine and what the call returns or throws
parseCircuitCode(eng, text) ==
    LET start == resetLists(eng)
    IN  IF isEmpty(text)
        THEN [engine |-> start, outcome |-> Thrown(text, EmptyInput)]
        ELSE LET done == parseLines(start, filterLines(split(text)))
             IN  IF noComponents(done)
                 THEN [engine |-> done, outcome |-> Thrown(text, NoComponents)]
                 ELSE [engine |-> done, outcome |-> Returned(text, done)]

-----------------------------------------------------------------------------
(* Controller: the snippets of insertComponent *)

componentCodes ==
    ("resistor" :> <<"R","1",":"," ","r","e","s","i","s","t","o","r"," ","1","k">>) @@
    ("capacitor" :> <<"C","1",":"," ","c","a","p","a","c","i","t","o","r"," ","1","0","0","u","F">>) @@
    ("inductor" :> <<"L","1",":"," ","i","n","d","u","c","t","o","r"," ","1","0","m","H">>) @@
    ("led" :> <<"L","E","D","1",":"," ","l","e","d"," ","r","e","d">>) @@
    ("battery" :> <<"V","1",":"," ","b","a","t","t","e","r","y"," ","9","V">>) @@
    ("ground" :> <<"G","N","D","1",":"," ","g","r","o","u","n","d">>) @@
    ("switch" :> <<"S","W","1",":"," ","s","w","i","t","c","h">>) @@
    ("transistor" :> <<"Q","1",":"," ","n","p","n">>) @@
    ("arduino_uno" :> <<"A","R","D","U","I","N","O","1",":"," ","a","r","d","u","i","n","o","_","u","n","o">>) @@
    ("arduino_nano" :> <<"N","A","N","O","1",":"," ","a","r","d","u","i","n","o","_","n","a","n","o">>) @@
    ("arduino_mega" :> <<"M","E","G","A","1",":"," ","a","r","d","u","i","n","o","_","m","e","g","a">>) @@
    ("esp32" :> <<"E","S","P","3","2","_","1",":"," ","e","s","p","3","2">>) @@
    ("esp32_cam" :> <<"C","A","M","1",":"," ","e","s","p","3","2","_","c","a","m">>) @@
    ("esp8266" :> <<"E","S","P","1",":"," ","e","s","p","8","2","6","6">>) @@
    ("ultrasonic" :> <<"H","C","1",":"," ","u","l","t","r","a","s","o","n","i","c"," ","H","C","-","S","R","0","4">>) @@
    ("dht11" :> <<"D","H","T","1",":"," ","d","h","t","1","1">>) @@
    ("dht22" :> <<"D","H","T","2",":"," ","d","h","t","2","2">>) @@
    ("pir" :> <<"P","I","R","1",":"," ","p","i","r">>) @@
    ("ir_sensor" :> <<"I","R","1",":"," ","i","r","_","s","e","n","s","o","r">>) @@
    ("accelerometer" :> <<"A","C","C","1",":"," ","a","c","c","e","l","e","r","o","m","e","t","e","r"," ","M","P","U","6","0","5","0">>) @@
    ("gyro" :> <<"G","Y","R","O","1",":"," ","g","y","r","o"," ","M","P","U","6","0","5","0">>) @@
    ("ldr" :> <<"L","D","R","1",":"," ","l","d","r">>) @@
    ("servo" :> <<"S","E","R","V","O","1",":"," ","s","e","r","v","o"," ","S","G","9","0">>) @@
    ("dc_motor" :> <<"M","1",":"," ","d","c","_","m","o","t","o","r">>) @@
    ("stepper" :> <<"S","T","E","P","1",":"," ","s","t","e","p","p","e","r"," ","2","8","B","Y","J","4","8">>) @@
    ("relay" :> <<"R","E","L","A","Y","1",":"," ","r","e","l","a","y"," ","5","V">>) @@
    ("buzzer" :> <<"B","U","Z","Z","1",":"," ","b","u","z","z","e","r">>) @@
    ("rgb_led" :> <<"R","G","B","1",":"," ","r","g","b","_","l","e","d">>) @@
    ("lcd" :> <<"L","C","D","1",":"," ","l","c","d"," ","1","6","x","2">>) @@
    ("oled" :> <<"O","L","E","D","1",":"," ","o","l","e","d"," ","1","2","8","x","6","4">>) @@
    ("7segment" :> <<"S","E","G","1",":"," ","7","s","e","g","m","e","n","t">>) @@
    ("potentiometer" :> <<"P","O","T","1",":"," ","p","o","t","e","n","t","i","o","m","e","t","e","r"," ","1","0","k">>) @@
    ("pushbutton" :> <<"B","T","N","1",":"," ","p","u","s","h","b","u","t","t","o","n">>) @@
    ("virtual_wall" :> <<"W","A","L","L","1",":"," ","v","i","r","t","u","a","l","_","w","a","l","l">>) @@
    ("virtual_obstacle" :> <<"O","B","J","1",":"," ","v","i","r","t","u","a","l","_","o","b","s","t","a","c","l","e">>) @@
    ("virtual_target" :> <<"T","A","R","G","E","T","1",":"," ","v","i","r","t","u","a","l","_","t","a","r","g","e","t">>) @@
    ("virtual_light" :> <<"L","I","G","H","T","1",":"," ","v","i","r","t","u","a","l","_","l","i","g","h","t">>)

ComponentTypes == DOMAIN componentCodes

-----------------------------------------------------------------------------
(* Editor text *)

\* R1: resistor 330 (250,100)
LineR1 == <<"R","1",":"," ","r","e","s","i","s","t","o","r"," ","3","3","0"," ","(","2","5","0",",","1","0","0",")">>
\* LED1: led red
LineLED1 == <<"L","E","D","1",":"," ","l","e","d"," ","r","e","d">>
\* R1 -> LED1
LineWire == <<"R","1"," ","-",">"," ","L","E","D","1">>
\* // Connections
LineComment == <<"/","/"," ","C","o","n","n","e","c","t","i","o","n","s">>
\* two spaces
LineBlank == <<" "," ">>
\* V1: battery 9V  // Power supply
LineV1Commented == <<"V","1",":"," ","b","a","t","t","e","r","y"," ","9","V"," "," ","/","/"," ","P","o","w","e","r"," ","s","u","p","p","l","y">>
\* R1 -> RGB1  // Red
LineWireCommented == <<"R","1"," ","-",">"," ","R","G","B","1"," "," ","/","/"," ","R","e","d">>
\* Q1: NPN (0, 50)
LineQ1 == <<"Q","1",":"," ","N","P","N"," ","(","0",","," ","5","0",")">>

\* GYRO1: gyro MPU6050
LineGYRO1 == <<"G","Y","R","O","1",":"," ","g","y","r","o"," ","M","P","U","6","0","5","0">>
\* U1: Opamp LM358
LineU1 == <<"U","1",":"," ","O","p","a","m","p"," ","L","M","3","5","8">>
\* LCD1: lcd
LineLCD1 == <<"L","C","D","1",":"," ","l","c","d">>
\* GND1: ground 0V
LineGND1 == <<"G","N","D","1",":"," ","g","r","o","u","n","d"," ","0","V">>

\* the lines typed into the editor
TypedLines ==
    {LineR1, LineLED1, LineWire, LineComment, LineBlank, LineV1Commented,
     LineWireCommented, LineQ1}

\* HC1: ultrasonic HC-SR04
LineHC1 == <<"H","C","1",":"," ","u","l","t","r","a","s","o","n","i","c"," ","H","C","-","S","R","0","4">>

\* the lines typed into the editor in SpecValidate
ValidateLines == {LineR1, LineLED1, LineWire, LineU1, LineComment, LineHC1}

\* LED1: led red (400, 100)
LineLED1At == <<"L","E","D","1",":"," ","l","e","d"," ","r","e","d"," ","(","4","0","0",","," ","1","0","0",")">>

\* the lines typed into the editor in SpecRender
RenderLines ==
    {LineR1, LineLED1, LineLED1At, LineWire, LineGYRO1, LineU1, LineLCD1, LineGND1}

\* the number of lines of the editor text
lineCount(text) == IF text = <<>> THEN 0 ELSE Len(split(text))

-----------------------------------------------------------------------------
(* CircuitEngine: the scene generator *)

\* the draw methods the class defines for (svg, component)
DrawMethods == {
    "drawComponent", "drawResistor", "drawCapacitor", "drawInductor",
    "drawLED", "drawBattery", "drawGround", "drawSwitch", "drawTransistor",
    "drawGenericComponent", "drawArduinoUno", "drawArduinoNano",
    "drawArduinoMega", "drawESP32", "drawESP32CAM", "drawESP8266",
    "drawDHT22", "drawPIR", "drawVirtualWall", "drawVirtualObstacle",
    "drawVirtualTarget", "drawVirtualLight", "drawUltrasonic", "drawDHT11",
    "drawLDR", "drawServo", "drawDCMotor", "drawRelay", "drawBuzzer",
    "drawLCD", "drawPotentiometer", "drawPushButton", "drawRGBLED"}

\* drawComponent's switch: the method each case calls
drawCases ==
    ("resistor" :> "drawResistor") @@
    ("capacitor" :> "drawCapacitor") @@
    ("inductor" :> "drawInductor") @@
    ("led" :> "drawLED") @@
    ("battery" :> "drawBattery") @@
    ("ground" :> "drawGround") @@
    ("switch" :> "drawSwitch") @@
    ("npn" :> "drawTransistor") @@
    ("transistor" :> "drawTransistor") @@
    ("arduino_uno" :> "drawArduinoUno") @@
    ("arduino_nano" :> "drawArduinoNano") @@
    ("arduino_mega" :> "drawArduinoMega") @@
    ("esp32" :> "drawESP32") @@
    ("esp32_cam" :> "drawESP32CAM") @@
    ("esp8266" :> "drawESP8266") @@
    ("ultrasonic" :> "drawUltrasonic") @@
    ("dht11" :> "drawDHT11") @@
    ("dht22" :> "drawDHT22") @@
    ("pir" :> "drawPIR") @@
    ("ir_sensor" :> "drawIRSensor") @@
    ("accelerometer" :> "drawAccelerometer") @@
    ("gyro" :> "drawGyro") @@
    ("ldr" :> "drawLDR") @@
    ("servo" :> "drawServo") @@
    ("dc_motor" :> "drawDCMotor") @@
    ("stepper" :> "drawStepper") @@
    ("relay" :> "drawRelay") @@
    ("buzzer" :> "drawBuzzer") @@
    ("rgb_led" :> "drawRGBLED") @@
    ("lcd" :> "drawLCD") @@
    ("oled" :> "drawOLED") @@
    ("7segment" :> "draw7Segment") @@
    ("potentiometer" :> "drawPotentiometer") @@
    ("pushbutton" :> "drawPushButton") @@
    ("virtual_wall" :> "drawVirtualWall") @@
    ("virtual_obstacle" :> "drawVirtualObstacle") @@
    ("virtual_target" :> "drawVirtualTarget") @@
    ("virtual_light" :> "drawVirtualLight")

\* the method drawComponent calls for a type; default: drawGenericComponent
drawMethod(type) ==
    IF type \in DOMAIN drawCases THEN drawCases[type] ELSE "drawGenericComponent"

\* addGrid(svg): the pattern definition and the rectangle filled with it
addGrid == <<[el |-> "defs", id |-> "grid"], [el |-> "rect", fill |-> "url(#grid)"]>>

ObjectObject == <<"[","o","b","j","e","c","t"," ","O","b","j","e","c","t","]">>

\* String(n) for n >= 0
RECURSIVE digits(_)
digits(n) ==
    IF n < 10 THEN <<DigitSeq[n + 1]>>
    ELSE digits(n \div 10) \o <<DigitSeq[(n % 10) + 1]>>

\* v + n for a stored coordinate v: numbers add, an object is converted to
\* its string and n is appended to it
plus(v, n) ==
    IF v.tag = "number" THEN Num(v.num + n) ELSE Str(ObjectObject \o digits(n))

\* components.find(c => c.name === name): the index of the first, 0 if none
find(comps, name) ==
    IF \E i \in DOMAIN comps : comps[i].name = name
    THEN CHOOSE i \in DOMAIN comps :
             comps[i].name = name /\ \A j \in 1..(i - 1) : comps[j].name # name
    ELSE 0

\* addConnectionDot(svg, x, y)
addConnectionDot(x, y) == [el |-> "circle", class |-> "circuit-terminal", cx |-> x, cy |-> y]

\* drawConnection(svg, connection, components): the elements it appends
\* (attribute values are given as passed to setAttribute)
drawConnection(conn, comps) ==
    LET f == find(comps, conn.from)
        t == find(comps, conn.to)
    IN  IF f = 0 \/ t = 0 THEN <<>>
        ELSE LET fromComp == comps[f]
                 toComp == comps[t]
             IN  <<[el |-> "line", class |-> "circuit-wire",
                    x1 |-> plus(fromComp.x, 40), y1 |-> plus(fromComp.y, 20),
                    x2 |-> toComp.x, y2 |-> plus(toComp.y, 20)],
                   addConnectionDot(plus(fromComp.x, 40), plus(fromComp.y, 20)),
                   addConnectionDot(toComp.x, plus(toComp.y, 20))>>

RECURSIVE drawConnections(_, _)
drawConnections(conns, comps) ==
    IF conns = <<>> THEN <<>>
    ELSE drawConnection(Head(conns), comps) \o drawConnections(Tail(conns), comps)

\* whether this[method] is a function
isDefined(method) == method \in DrawMethods

\* the type tokens of the editor lines, as parseLine stores them
TypeSpellings ==
    {toLowerCase(componentMatch(trim(l)).type) :
        l \in {k \in TypedLines \cup RenderLines : componentMatch(trim(k)).matched}}

\* the characters of a stored type
chars(type) == CHOOSE c \in TypeSpellings : Join(c) = type

\* the draw methods that pass '' to addLabel in place of component.value
UnlabelledValue ==
    {"drawGround", "drawSwitch", "drawArduinoUno", "drawArduinoNano", "drawArduinoMega",
     "drawESP32", "drawESP32CAM", "drawESP8266", "drawDHT22", "drawPIR",
     "drawVirtualWall", "drawVirtualObstacle", "drawVirtualTarget", "drawVirtualLight",
     "drawUltrasonic", "drawDHT11", "drawBuzzer", "drawPushButton", "drawRGBLED"}

\* the value a draw method passes to addLabel
labelValue(method, comp) ==
    IF method \in UnlabelledValue THEN ""
    ELSE IF method = "drawLCD" THEN "16x2"
    ELSE comp.value

\* addLabel(group, name, value, x, y): the text elements it appends
addLabel(name, value) ==
    <<[el |-> "text", weight |-> "bold", textContent |-> name]>> \o
    (IF value # "" THEN <<[el |-> "text", weight |-> "", textContent |-> value]>> ELSE <<>>)

\* the shapes a draw method appends to its group before the labels: those
\* of drawGenericComponent; the other methods' shapes are left as one symbol
shapes(method, comp) ==
    IF method = "drawGenericComponent"
    THEN <<[el |-> "rect", textContent |-> ""], [el |-> "line", textContent |-> ""],
           [el |-> "line", textContent |-> ""],
           [el |-> "text", textContent |-> Join(toUpperCase(chars(comp.type)))]>>
    ELSE <<[el |-> "symbol", textContent |-> ""]>>

\* drawComponent(svg, component): the group the draw method appends, or the
\* TypeError of calling a method the class does not define
drawComponent(comp) ==
    LET method == drawMethod(comp.type)
    IN  IF isDefined(method)
        THEN [thrown |-> FALSE,
              element |-> [el |-> "g", method |-> method, x |-> comp.x, y |-> comp.y,
                           name |-> comp.name,
                           shapes |-> shapes(method, comp),
                           labels |-> addLabel(comp.name, labelValue(method, comp))]]
        ELSE [thrown |-> TRUE, message |-> "this." \o method \o " is not a function"]

\* components.forEach(comp => this.drawComponent(svg, comp)), from the scene
\* drawn so far: stops at the first exception
RECURSIVE drawComponents(_, _)
drawComponents(scene, comps) ==
    IF comps = <<>> THEN [svg |-> scene, thrown |-> FALSE, message |-> ""]
    ELSE LET d == drawComponent(Head(comps))
         IN  IF d.thrown
             THEN [svg |-> scene, thrown |-> TRUE, message |-> d.message]
             ELSE drawComponents(Append(scene, d.element), Tail(comps))

\* the scene left as it is
keepScene(scene) == scene

\* svg.innerHTML = ''
clearScene(scene) == <<>>

\* generateCircuit(components, connections): on the cleared scene, the grid,
\* the connections, the components
generateCircuit(comps, conns) ==
    drawComponents(addGrid \o drawConnections(conns, comps), comps)

-----------------------------------------------------------------------------
(* Controller: timers.  A pending callback is a record of its kind, the     *)
(* time it is due and a flag: for a debounce callback, that debounceTimer   *)
(* holds its id; for the callback that hides a message, that the message    *)
(* element is still in the page.                                            *)

debounceDelay == 1000
generateDelay == 500
messageDuration == 3000

\* setTimeout(callback, delay) at time t
setTimeout(ts, kind, delay, t) ==
    Append(ts, [kind |-> kind, due |-> t + delay, live |-> TRUE])

\* the pending callbacks left as they are
keepTimeout(ts) == ts

\* clearTimeout(debounceTimer)
clearTimeout(ts) == SelectSeq(ts, LAMBDA x : ~(x.kind = "debounce" /\ x.live))

\* debounceTimer = ...: the ids held before are held no more
released(ts) ==
    [i \in DOMAIN ts |->
        IF ts[i].kind = "debounce" THEN [ts[i] EXCEPT !.live = FALSE] ELSE ts[i]]

\* the 'change' listener of setupEventListeners
onChange(ts, t) == setTimeout(released(clearTimeout(ts)), "debounce", debounceDelay, t)

\* the pending debounce callbacks
Debounces(ts) == SelectSeq(ts, LAMBDA x : x.kind = "debounce")

\* no text change yet
NoChange ==
    [changed |-> FALSE, restarted |-> FALSE, lastChange |-> 0, runs |-> 0, ranAt |-> 0,
     generated |-> FALSE]

\* a text change at time t: whether it came while a debounce callback was
\* pending, and no debounce callback run since
Changed(ts, t) ==
    [changed |-> TRUE, restarted |-> Debounces(ts) # <<>>, lastChange |-> t, runs |-> 0,
     ranAt |-> 0, generated |-> FALSE]

\* no message element
NoMessage == [text |-> "", type |-> ""]

-----------------------------------------------------------------------------
(* The state machine *)

\* constructor: this.zoom = 1
ZoomOne == 1000

-----------------------------------------------------------------------------
(* SimulationEngine: the simulation canvases and the serial panel are taken
   to be in the page *)

\* the animation frames requested and the virtual objects, at most
MaxFrames == 3
MaxObjects == 6

\* the messages the serial panel holds when a control is used, at most
MaxSerial == 6

\* this.time += 0.016, in milliseconds
frameTime == 16

\* dataHistory buffers and serialOutput keep their last entries
historyLimit == 50
serialLimit == 100

\* the fields of a SimulationEngine before initializeCanvas: sensorData is
\* {}, each of the four buffers of dataHistory is held by its length, the
\* readings being random, animationFrame 0 is null, frames are the callbacks
\* requestAnimationFrame holds, requested counts the handles given out,
\* last names the last operation and aliased tells that this.components is
\* the array circuitEngine.components is
Constructed ==
    [components |-> <<>>, isRunning |-> FALSE, isPaused |-> FALSE, time |-> 0,
     virtualObjects |-> <<>>,
     sensorData |-> [ultrasonic |-> "undefined", temperature |-> "undefined",
                     humidity |-> "undefined", light |-> "undefined"],
     serialOutput |-> <<>>,
     dataHistory |-> [ultrasonic |-> 0, temperature |-> 0, humidity |-> 0, light |-> 0],
     animationFrame |-> 0, frames |-> {}, requested |-> 0, last |-> "new",
     aliased |-> FALSE]

\* addSerialMessage(message), the timestamp left out
addSerialMessage(sm, message) ==
    [sm EXCEPT !.serialOutput =
        LET out == Append(@, message)
        IN  IF Len(out) > serialLimit THEN Tail(out) ELSE out]

clearSerialOutput(sm) == [sm EXCEPT !.serialOutput = <<>>]

\* addVirtualObject(obj) with x and y given
addVirtualObject(sm, obj) ==
    addSerialMessage(
        [sm EXCEPT !.virtualObjects = Append(@, obj)],
        "Added " \o obj.type \o " at (" \o Join(digits(obj.x)) \o ", " \o
            Join(digits(obj.y)) \o ")")

Wall == [type |-> "wall", x |-> 100, y |-> 150, width |-> 20, height |-> 100, radius |-> 20]
Target == [type |-> "target", x |-> 300, y |-> 150, width |-> 20, height |-> 60, radius |-> 20]

\* setupVirtualEnvironment(): the default objects are added to the list
setupVirtualEnvironment(sm) == addVirtualObject(addVirtualObject(sm, Wall), Target)

\* new SimulationEngine()
NewSimulation == setupVirtualEnvironment(Constructed)

\* requestAnimationFrame(() => this.animate()), the handle kept
requestAnimationFrame(sm) ==
    [sm EXCEPT !.requested = @ + 1,
               !.animationFrame = sm.requested + 1,
               !.frames = @ \cup {sm.requested + 1}]

\* the pending callback left as it is
keepAnimationFrame(sm) == sm

\* if (this.animationFrame) cancelAnimationFrame(this.animationFrame)
cancelAnimationFrame(sm) ==
    IF sm.animationFrame # 0 THEN [sm EXCEPT !.frames = @ \ {sm.animationFrame}] ELSE sm

\* this.components.some(c => c.type === type)
has(comps, types) == \E i \in DOMAIN comps : comps[i].type \in types

\* a reading pushed to a buffer of dataHistory
pushed(n) == IF n + 1 > historyLimit THEN historyLimit ELSE n + 1

\* the four simulate...Sensor methods on the component list comps
simulateSensors(sm, comps) ==
    LET ultrasonic == has(comps, {"ultrasonic"})
        dht == has(comps, {"dht11", "dht22"})
        ldr == has(comps, {"ldr"})
        shown(on, was) == IF on THEN "reading" ELSE was
        length(on, n) == IF on THEN pushed(n) ELSE n
    IN  [sm EXCEPT
            !.sensorData = [ultrasonic |-> shown(ultrasonic, @.ultrasonic),
                            temperature |-> shown(dht, @.temperature),
                            humidity |-> shown(dht, @.humidity),
                            light |-> shown(ldr, @.light)],
            !.dataHistory = [ultrasonic |-> length(ultrasonic, @.ultrasonic),
                             temperature |-> length(dht, @.temperature),
                             humidity |-> length(dht, @.humidity),
                             light |-> length(ldr, @.light)]]

\* Math.round(Math.sin(t) * 90 + 90) for t milliseconds, the sine by its
\* series to the third power (t below a second)
servoAngle(t) == (90000 + 90 * t - (15 * t * t * t) \div 1000000 + 500) \div 1000

\* Math.sin(t * 2) > 0 for t milliseconds, 2 pi being 6283 thousandths
ledState(t) == IF (2 * t) % 6283 \in 1..3141 THEN "ON" ELSE "OFF"

\* actuators that take the first component off the list
shiftActuators(sm, comps) ==
    IF sm.components # <<>> THEN [sm EXCEPT !.components = Tail(@)] ELSE sm

\* simulateActuators() on the component list comps
simulateActuators(sm, comps) ==
    LET servo == IF has(comps, {"servo"})
                 THEN addSerialMessage(sm, "Servo position: " \o
                                           Join(digits(servoAngle(sm.time))) \o "°")
                 ELSE sm
    IN  IF has(comps, {"led"})
        THEN addSerialMessage(servo, "LED status: " \o ledState(sm.time))
        ELSE servo

\* updateSimulation() on the list this.components refers to
updateSimulation(sm, comps) == simulateActuators(simulateSensors(sm, comps), comps)

\* animate() on the list this.components refers to; drawEnvironment,
\* updateSensorDisplay and updateDataGraph draw what the fields hold
animate(sm, comps) ==
    IF ~sm.isRunning \/ sm.isPaused THEN sm
    ELSE requestAnimationFrame(updateSimulation([sm EXCEPT !.time = @ + frameTime], comps))

\* startSimulation()
startSimulation(sm, comps) ==
    IF sm.isRunning /\ ~sm.isPaused THEN [sm EXCEPT !.last = "start"]
    ELSE animate(addSerialMessage([sm EXCEPT !.isRunning = TRUE, !.isPaused = FALSE,
                                             !.last = "start"],
                                  "Simulation started..."), comps)

\* pauseSimulation()
pauseSimulation(sm) ==
    addSerialMessage(cancelAnimationFrame([sm EXCEPT !.isPaused = TRUE, !.last = "pause"]),
                     "Simulation paused.")

\* resetSimulation()
resetSimulation(sm) ==
    addSerialMessage(
        setupVirtualEnvironment(clearSerialOutput(
            [cancelAnimationFrame([sm EXCEPT !.isRunning = FALSE, !.isPaused = FALSE,
                                             !.time = 0, !.last = "reset"])
                EXCEPT !.sensorData = [ultrasonic |-> "--", temperature |-> "--",
                                       humidity |-> "--", light |-> "--"],
                       !.dataHistory = [ultrasonic |-> 0, temperature |-> 0,
                                        humidity |-> 0, light |-> 0]])),
        "Simulation reset.")

\* setComponents(components): the list is referred to, not copied, and the
\* list generateCircuit of main.js hands over is circuitEngine.components
setComponents(sm, comps) == [sm EXCEPT !.components = comps, !.aliased = TRUE]

\* the lists emptied in place, as this.components.length = 0 would: the
\* simulation sees what the parse leaves in its list
emptied(sm, eng) ==
    IF sm.aliased THEN [sm EXCEPT !.components = eng.components] ELSE sm

\* this.components = [] in parseCircuitCode, which left eng in the engine:
\* the engine has a new array and the one the simulation refers to is as it
\* was
rebound(sm, eng) == [sm EXCEPT !.aliased = FALSE]

\* circuitEngine.components after a step of the simulation from sm to next:
\* a write to this.components is a write to it when the two are one array
seen(sm, next, comps) == IF sm.aliased THEN next.components ELSE comps

\* the callback of a requested frame
frame(sm, comps) == [animate(sm, comps) EXCEPT !.last = "frame"]


NoCall == [code |-> <<>>, status |-> "none", message |-> "",
           components |-> <<>>, connections |-> <<>>]

Init ==
    /\ code = <<>>
    /\ components = <<>>
    /\ connections = <<>>
    /\ parsed = NoCall
    /\ svg = <<>>
    /\ rendered = [status |-> "none", message |-> "", components |-> <<>>, connections |-> <<>>]
    /\ zoom = ZoomOne
    /\ zoomed = [op |-> "none", from |-> ZoomOne, transform |-> ""]
    /\ validation = [status |-> "none", code |-> <<>>, errors |-> <<>>]
    /\ notification = <<>>
    /\ uncaught = {}
    /\ button = [loading |-> FALSE, disabled |-> FALSE]
    /\ generated = [outcome |-> "none", before |-> <<>>, shown |-> NoMessage]
    /\ timers = <<>>
    /\ now = 0
    /\ debounced = NoChange
    /\ sim = NewSimulation
    /\ exports = <<>>

\* the user types one more line at the end of the editor text; the editor
\* fires 'change'
TypeLine(line) ==
    /\ lineCount(code) < MaxLines
    /\ code' = IF code = <<>> THEN line ELSE code \o <<"\n">> \o line
    /\ timers' = onChange(timers, now)
    /\ debounced' = Changed(timers, now)
    /\ UNCHANGED <<engineVars, viewVars, validation, pageVars, now>>

\* insertComponent(componentType), the cursor at the start or the end of the
\* text: editor.replaceRange('\n' + code + '\n', cursor)
InsertComponent(componentType, atEnd) ==
    /\ Len(filterLines(split(code))) < MaxInserts
    /\ \E snippet \in {<<"\n">> \o componentCodes[componentType] \o <<"\n">>} :
        code' = IF atEnd THEN code \o snippet ELSE snippet \o code
    /\ timers' = setTimeout(onChange(timers, now), "generate", generateDelay, now)
    /\ debounced' = Changed(timers, now)
    /\ UNCHANGED <<engineVars, viewVars, validation, pageVars, now>>

\* circuitEngine.parseCircuitCode(editor.getValue())
ParseCircuitCode ==
    /\ \E r \in {parseCircuitCode(Lists(components, connections), code)} :
        /\ components' = r.engine.components
        /\ connections' = r.engine.connections
        /\ parsed' = r.outcome
        /\ sim' = rebound(sim, r.engine)
    /\ UNCHANGED <<code, svg, rendered, viewVars, validation, notification, uncaught, button,
                   generated, exports, timeVars>>

\* circuitEngine.generateCircuit(components, connections) on the lists the
\* last parseCircuitCode call returned
GenerateCircuit ==
    /\ parsed.status = "returned"
    /\ \E r \in {generateCircuit(parsed.components, parsed.connections)} :
        /\ svg' = clearScene(svg) \o r.svg
        /\ rendered' = [status |-> IF r.thrown THEN "thrown" ELSE "done",
                        message |-> r.message,
                        components |-> parsed.components,
                        connections |-> parsed.connections]
    /\ UNCHANGED <<code, components, connections, parsed, viewVars, validation, pageVars,
                   timeVars>>

Next ==
    \/ \E line \in TypedLines : TypeLine(line)
    \/ ParseCircuitCode
    \/ GenerateCircuit

Spec == Init /\ [][Next]_vars

NextInsert ==
    \/ \E t \in ComponentTypes, atEnd \in BOOLEAN : InsertComponent(t, atEnd)
    \/ ParseCircuitCode
    \/ GenerateCircuit

SpecInsert == Init /\ [][NextInsert]_vars

NextRender ==
    \/ \E line \in RenderLines : TypeLine(line)
    \/ ParseCircuitCode
    \/ GenerateCircuit

SpecRender == Init /\ [][NextRender]_vars

-----------------------------------------------------------------------------
(* Controller: the validator's closed type enumeration *)

validTypes == {
    "resistor", "capacitor", "inductor", "led", "battery", "ground", "switch",
    "npn", "transistor",
    "arduino_uno", "arduino_nano", "arduino_mega", "esp32", "esp32_cam", "esp8266",
    "ultrasonic", "dht11", "dht22", "pir", "ir_sensor", "accelerometer", "gyro", "ldr",
    "servo", "dc_motor", "stepper", "relay", "buzzer", "rgb_led",
    "lcd", "oled", "7segment", "potentiometer", "pushbutton",
    "virtual_wall", "virtual_obstacle", "virtual_target", "virtual_light"}

-----------------------------------------------------------------------------
(* CircuitEngine: zoom.  The zoom factor is counted in thousandths.  The    *)
(* sum this.zoom + 0.1 is a floating-point sum and need not be the exact    *)
(* tenth; its error is taken to be at most one thousandth either way, which *)
(* is far more than the sum can be off.                                     *)

ZoomMax == 3000
ZoomMin == 500
ZoomStep == 100

RoundingErrors == {-1, 0, 1}

\* Math.min, Math.max
min(a, b) == IF a <= b THEN a ELSE b
max(a, b) == IF a >= b THEN a ELSE b

\* the sum without its limit
zoomInUnclamped(z, e) == z + ZoomStep + e

\* zoomIn: Math.min(this.zoom + 0.1, 3); e is the error of the sum
zoomIn(z, e) == min(z + ZoomStep + e, ZoomMax)

\* zoomOut: Math.max(this.zoom - 0.1, 0.5)
zoomOut(z, e) == max(z - ZoomStep + e, ZoomMin)

\* the decimals of a number of thousandths, trailing zeros dropped
fraction(n) ==
    IF n % 1000 = 0 THEN ""
    ELSE IF n % 100 = 0 THEN "." \o Join(digits((n % 1000) \div 100))
    ELSE IF n % 10 = 0
    THEN "." \o Join(digits((n % 1000) \div 100)) \o Join(digits((n % 100) \div 10))
    ELSE "." \o Join(digits((n % 1000) \div 100)) \o Join(digits((n % 100) \div 10))
             \o Join(digits(n % 10))

\* applyZoom: svg.style.transform = `scale(${this.zoom})`
applyZoom(z) == "scale(" \o Join(digits(z \div 1000)) \o fraction(z) \o ")"

\* a zoomIn that also empties the scene
ZoomInAndClear ==
    /\ \E e \in RoundingErrors :
        /\ zoom' = zoomIn(zoom, e)
        /\ zoomed' = [op |-> "zoomIn", from |-> zoom, transform |-> applyZoom(zoomIn(zoom, e))]
    /\ svg' = <<>>
    /\ UNCHANGED <<code, components, connections, parsed, rendered, validation, pageVars,
                   timeVars>>

\* circuitEngine.zoomIn()
ZoomIn ==
    /\ \E e \in RoundingErrors :
        /\ zoom' = zoomIn(zoom, e)
        /\ zoomed' = [op |-> "zoomIn", from |-> zoom, transform |-> applyZoom(zoomIn(zoom, e))]
    /\ UNCHANGED <<code, engineVars, validation, pageVars, timeVars>>

\* circuitEngine.zoomOut()
ZoomOut ==
    /\ \E e \in RoundingErrors :
        /\ zoom' = zoomOut(zoom, e)
        /\ zoomed' = [op |-> "zoomOut", from |-> zoom, transform |-> applyZoom(zoomOut(zoom, e))]
    /\ UNCHANGED <<code, engineVars, validation, pageVars, timeVars>>

NextZoom == ZoomIn \/ ZoomOut

SpecZoom == Init /\ [][NextZoom]_vars

-----------------------------------------------------------------------------
(* Controller: validateCircuitCode *)

\* `Line ${line}: ${kind} '${subject}'`
Diagnostic(line, kind, subject) == [line |-> line, kind |-> kind, subject |-> subject]

DuplicateName == "Duplicate component name"
UnknownType == "Unknown component type"
InvalidSyntax == "Invalid syntax"
NotFound == "not found"

\* the diagnostics of a component line, given the names seen before it
componentErrors(index, m, names) ==
    (IF Join(m.name) \in names
     THEN <<Diagnostic(index, DuplicateName, Join(m.name))>> ELSE <<>>) \o
    (IF Join(toLowerCase(m.type)) \notin validTypes
     THEN <<Diagnostic(index, UnknownType, Join(m.type))>> ELSE <<>>)

\* the body of lines.forEach for one line: v holds componentNames, connections
\* and errors
validateLine(v, line, index) ==
    LET trimmed == trim(line)
        cm == componentMatch(trimmed)
        xm == connectionMatch(trimmed)
    IN  IF trimmed = <<>> \/ startsWith(trimmed, <<"/", "/">>) THEN v
        ELSE IF cm.matched
        THEN [v EXCEPT !.errors = @ \o componentErrors(index, cm, v.names),
                       !.names = @ \cup {Join(cm.name)}]
        ELSE IF xm.matched
        THEN [v EXCEPT !.connections =
                  Append(@, [from |-> Join(xm.from), to |-> Join(xm.to), line |-> index])]
        ELSE [v EXCEPT !.errors = Append(@, Diagnostic(index, InvalidSyntax, ""))]

RECURSIVE validateLines(_, _, _)
validateLines(v, lines, index) ==
    IF index > Len(lines) THEN v
    ELSE validateLines(validateLine(v, lines[index], index), lines, index + 1)

\* the diagnostic of the first endpoint that is not declared, alone
firstMissingEndpoint(conn, names) ==
    IF conn.from \notin names THEN <<Diagnostic(conn.line, NotFound, conn.from)>>
    ELSE IF conn.to \notin names THEN <<Diagnostic(conn.line, NotFound, conn.to)>>
    ELSE <<>>

\* the diagnostic of the source endpoint alone, the target not looked at
missingSource(conn, names) ==
    IF conn.from \notin names THEN <<Diagnostic(conn.line, NotFound, conn.from)>> ELSE <<>>

\* the body of connections.forEach for one connection
missingEndpoints(conn, names) ==
    (IF conn.from \notin names
     THEN <<Diagnostic(conn.line, NotFound, conn.from)>> ELSE <<>>) \o
    (IF conn.to \notin names
     THEN <<Diagnostic(conn.line, NotFound, conn.to)>> ELSE <<>>)

RECURSIVE connectionErrors(_, _)
connectionErrors(conns, names) ==
    IF conns = <<>> THEN <<>>
    ELSE missingEndpoints(Head(conns), names) \o connectionErrors(Tail(conns), names)

\* validateCircuitCode(code): the errors it returns
validateCircuitCode(text) ==
    LET v == validateLines([names |-> {}, connections |-> <<>>, errors |-> <<>>],
                           split(text), 1)
    IN  v.errors \o connectionErrors(v.connections, v.names)

\* a validation that empties the engine's lists as parseCircuitCode does
ValidateAndReset ==
    /\ validation' = [status |-> "returned", code |-> code,
                      errors |-> validateCircuitCode(code)]
    /\ components' = <<>>
    /\ connections' = <<>>
    /\ UNCHANGED <<code, parsed, svg, rendered, viewVars, pageVars, timeVars>>

\* validateCircuitCode(editor.getValue())
ValidateCircuitCode ==
    /\ validation' = [status |-> "returned", code |-> code,
                      errors |-> validateCircuitCode(code)]
    /\ UNCHANGED <<code, engineVars, viewVars, pageVars, timeVars>>

NextValidate ==
    \/ \E line \in ValidateLines : TypeLine(line)
    \/ ValidateCircuitCode

SpecValidate == Init /\ [][NextValidate]_vars

-----------------------------------------------------------------------------
(* Controller: generateCircuit, the timer callbacks and the export.  The    *)
(* functions of main.js work on the page as a whole, so they are written as *)
(* operators from the page to the page.                                     *)

\* ticks of the clock in SpecController and SpecExport
MaxTicks == 7
\* callbacks that may be pending when the user acts
MaxTimers == 3
\* exportPNG calls in SpecExport
MaxExports == 3

\* the clock ticks in steps of the shortest delay
TickMs == generateDelay

\* the page: the editor, the engine, the scene and what the controller shows
Page ==
    [code |-> code, components |-> components, connections |-> connections,
     parsed |-> parsed, svg |-> svg, rendered |-> rendered,
     notification |-> notification, uncaught |-> uncaught, button |-> button,
     generated |-> generated, sim |-> sim, timers |-> timers, now |-> now]

\* showMessage(message, type): the existing messages are removed, so the
\* callbacks that would hide them find nothing; the new one is hidden after
\* three seconds
showMessage(pg, text, type) ==
    [pg EXCEPT
        !.notification = <<[text |-> text, type |-> type]>>,
        !.timers = setTimeout(
            [i \in DOMAIN pg.timers |->
                IF pg.timers[i].kind = "hide"
                THEN [pg.timers[i] EXCEPT !.live = FALSE] ELSE pg.timers[i]],
            "hide", messageDuration, pg.now)]

\* showMessage called by generateCircuit: what this call showed
report(pg, text, type) ==
    [showMessage(pg, text, type) EXCEPT !.generated.shown = [text |-> text, type |-> type]]

\* the loading state: event?.target is the clicked button, or nothing when
\* the call comes from a timer
loadingState(pg, clicked) ==
    IF clicked THEN [pg EXCEPT !.button = [loading |-> TRUE, disabled |-> TRUE]] ELSE pg

\* finally { if (button) ... }: button is declared in the try block and is
\* not in scope here
finally(pg) ==
    [pg EXCEPT !.uncaught = @ \cup {"ReferenceError: button is not defined"}]

Success(comps, conns) ==
    "Successfully generated circuit with " \o Join(digits(Len(comps))) \o
    " components and " \o Join(digits(Len(conns))) \o " connections"

\* the call began: the scene it found
begun(pg, outcome) ==
    [pg EXCEPT !.generated = [outcome |-> outcome, before |-> pg.svg, shown |-> NoMessage]]

\* the one element of a set
the(S) == CHOOSE x \in S : TRUE

\* the try block after the parse returned and circuitEngine.generateCircuit
\* ended as r
drawn(pg, r) ==
    LET scene == [pg EXCEPT
                    !.svg = clearScene(pg.svg) \o r.svg,
                    !.rendered = [status |-> IF r.thrown THEN "thrown" ELSE "done",
                                  message |-> r.message,
                                  components |-> pg.parsed.components,
                                  connections |-> pg.parsed.connections]]
    IN  IF r.thrown
        THEN report([scene EXCEPT !.generated.outcome = "render"],
                    "Error: " \o r.message, "error")
        ELSE report(
                 [scene EXCEPT
                     !.generated.outcome = "done",
                     !.sim = resetSimulation(setComponents(@, pg.parsed.components))],
                 Success(pg.parsed.components, pg.parsed.connections), "success")

\* the try block after circuitEngine.parseCircuitCode ended as p
read(pg, p) ==
    LET lists == [pg EXCEPT !.components = p.engine.components,
                            !.connections = p.engine.connections,
                            !.parsed = p.outcome,
                            !.sim = rebound(@, p.engine)]
    IN  IF p.outcome.status = "thrown"
        THEN report(lists, "Error: " \o p.outcome.message, "error")
        ELSE the({drawn(lists, r) :
                     r \in {generateCircuit(p.outcome.components, p.outcome.connections)}})

\* generateCircuit() of main.js
generate(pg, clicked) ==
    IF isEmpty(pg.code)
    THEN report(begun(pg, "empty"), "Please enter circuit code", "error")
    ELSE finally(the({read(loadingState(begun(pg, "parse"), clicked), p) :
             p \in {parseCircuitCode(Lists(pg.components, pg.connections), pg.code)}}))

\* the page after a step
Becomes(pg) ==
    /\ components' = pg.components
    /\ connections' = pg.connections
    /\ parsed' = pg.parsed
    /\ svg' = pg.svg
    /\ rendered' = pg.rendered
    /\ notification' = pg.notification
    /\ uncaught' = pg.uncaught
    /\ button' = pg.button
    /\ generated' = pg.generated
    /\ sim' = pg.sim
    /\ timers' = pg.timers

\* the texts the user leaves in the editor in SpecController
EditorTexts ==
    {LineR1, LineGYRO1, LineComment, LineBlank,
     LineR1 \o <<"\n">> \o LineLED1 \o <<"\n">> \o LineWire}

\* the user replaces the editor text; the editor fires 'change'
EditText(text) ==
    /\ Len(timers) < MaxTimers
    /\ code # text
    /\ code' = text
    /\ timers' = onChange(timers, now)
    /\ debounced' = Changed(timers, now)
    /\ UNCHANGED <<engineVars, viewVars, validation, pageVars, now>>

\* the user clicks the Generate button
ClickGenerate ==
    /\ Len(timers) < MaxTimers
    /\ ~button.disabled
    /\ \E pg \in {generate(Page, TRUE)} : Becomes(pg)
    /\ UNCHANGED <<code, viewVars, validation, exports, now, debounced>>

\* the pending callback that runs next: the first set of those due first
nextTimer(ts) ==
    CHOOSE i \in DOMAIN ts :
        \A j \in DOMAIN ts : ts[i].due < ts[j].due \/ (ts[i].due = ts[j].due /\ i <= j)

\* the callbacks but the i-th
without(ts, i) == SubSeq(ts, 1, i - 1) \o SubSeq(ts, i + 1, Len(ts))

\* the callback of a timer, run on the page it has left
callback(timer, pg) ==
    IF timer.kind = "hide"
    THEN IF timer.live THEN [pg EXCEPT !.notification = <<>>] ELSE pg
    ELSE IF timer.kind = "debounce" /\ isEmpty(pg.code) THEN pg
    ELSE generate(pg, FALSE)

\* a due callback runs
FireTimer ==
    /\ timers # <<>>
    /\ \E i \in {nextTimer(timers)} :
        /\ timers[i].due <= now
        /\ \E pg \in {callback(timers[i], [Page EXCEPT !.timers = without(timers, i)])} :
               Becomes(pg)
        /\ debounced' =
               IF timers[i].kind = "debounce"
               THEN [debounced EXCEPT !.runs = @ + 1, !.ranAt = now,
                                      !.generated = ~isEmpty(code)]
               ELSE debounced
    /\ UNCHANGED <<code, viewVars, validation, exports, now>>

\* time passes, once every due callback has run
Tick ==
    /\ now < MaxTicks * TickMs
    /\ \A i \in DOMAIN timers : timers[i].due > now
    /\ now' = now + TickMs
    /\ UNCHANGED <<code, engineVars, viewVars, validation, pageVars, timers, debounced>>

PngExported == "Circuit exported as PNG successfully"

\* exportPNG() of main.js: circuitEngine.exportPNG() serializes the scene and
\* sets img.src, and returns; the scene holds word characters only, so btoa
\* does not throw and the catch block is not entered
ExportPNG ==
    /\ Len(exports) < MaxExports
    /\ exports' = Append(exports, [state |-> "loading",
                                   shown |-> [text |-> PngExported, type |-> "success"]])
    /\ \E pg \in {showMessage(Page, PngExported, "success")} : Becomes(pg)
    /\ UNCHANGED <<code, viewVars, validation, now, debounced>>

\* img.onload of the i-th export: the canvas is drawn and canvas.toBlob
\* hands the callback a blob, or null when the canvas cannot be encoded;
\* URL.createObjectURL(null) throws in the callback
ImageLoad(i, encoded) ==
    /\ exports[i].state = "loading"
    /\ exports' = [exports EXCEPT ![i].state = IF encoded THEN "saved" ELSE "failed"]
    /\ uncaught' = IF encoded THEN uncaught
                   ELSE uncaught \cup {"TypeError: Failed to execute 'createObjectURL' on 'URL'"}
    /\ UNCHANGED <<code, engineVars, viewVars, validation, notification, button, generated,
                   sim, timeVars>>

\* the image of the i-th export cannot be decoded: its error event fires,
\* and no listener is set for it
ImageError(i) ==
    /\ exports[i].state = "loading"
    /\ exports' = [exports EXCEPT ![i].state = "failed"]
    /\ UNCHANGED <<code, engineVars, viewVars, validation, notification, uncaught, button,
                   generated, sim, timeVars>>

NextExport ==
    \/ ExportPNG
    \/ \E i \in DOMAIN exports, encoded \in BOOLEAN : ImageLoad(i, encoded)
    \/ \E i \in DOMAIN exports : ImageError(i)
    \/ FireTimer
    \/ Tick

SpecExport == Init /\ [][NextExport]_vars

NextController ==
    \/ \E text \in EditorTexts : EditText(text)
    \/ ClickGenerate
    \/ FireTimer
    \/ Tick

SpecController == Init /\ [][NextController]_vars

-----------------------------------------------------------------------------
(* Properties: what they speak of *)

\* the text holds only spaces and line breaks
Blank(text) == \A i \in DOMAIN text : text[i] \in {" ", "\n"}

\* a blank line or a full-line comment
Noise(line) == trim(line) = <<>> \/ startsWith(trim(line), <<"/", "/">>)

\* the lines of a text that are not noise, trimmed
Statements(text) ==
    LET kept == SelectSeq(split(text), LAMBDA l : ~Noise(l))
    IN  [i \in DOMAIN kept |-> trim(kept[i])]

IsComponentLine(line) == componentMatch(line).matched
IsConnectionLine(line) == connectionMatch(line).matched

\* the component declarations of a text, in order, as matched
Declarations(text) ==
    LET decl == SelectSeq(Statements(text), IsComponentLine)
    IN  [i \in DOMAIN decl |-> componentMatch(decl[i])]

\* lines joined by line breaks
RECURSIVE unsplit(_)
unsplit(lines) ==
    IF lines = <<>> THEN <<>>
    ELSE IF Len(lines) = 1 THEN lines[1]
    ELSE lines[1] \o <<"\n">> \o unsplit(Tail(lines))

\* the text with every noise line removed
WithoutNoise(text) == unsplit(SelectSeq(split(text), LAMBDA l : ~Noise(l)))

\* the lists a call produced: returned, or none
ListsOf(outcome) ==
    [status |-> outcome.status,
     components |-> outcome.components,
     connections |-> outcome.connections]

\* a parse has been made
Called == parsed.status # "none"

\* the part of a line before its first '//'
beforeComment(line) ==
    LET i == CHOOSE k \in 1..Len(line) + 1 :
                 /\ k = Len(line) + 1 \/ (k < Len(line) /\ line[k] = "/" /\ line[k + 1] = "/")
                 /\ \A j \in 1..(k - 1) : ~(j < Len(line) /\ line[j] = "/" /\ line[j + 1] = "/")
    IN  trim(SubSeq(line, 1, i - 1))

\* a statement followed on its line by a comment
HasTrailingComment(line) == beforeComment(line) # line /\ beforeComment(line) # <<>>

\* the words of a snippet: its pieces between single spaces
RECURSIVE words(_)
words(s) ==
    LET i == indexOf(s, " ", 1)
    IN  IF i > Len(s) THEN <<s>>
        ELSE <<SubSeq(s, 1, i - 1)>> \o words(SubSeq(s, i + 1, Len(s)))

\* the record a snippet 'NAME: type [value]' states
Stated(snippet) ==
    LET w == words(snippet)
    IN  [name |-> Join(SubSeq(w[1], 1, Len(w[1]) - 1)),
         type |-> Join(w[2]),
         value |-> IF Len(w) >= 3 THEN Join(w[3]) ELSE ""]

-----------------------------------------------------------------------------
(* Properties *)

\* C1: every component declared without a position is stored at the integer
\* grid slot (100 + (index mod 7) * 100, 100 + (index div 7) * 100), index
\* being the number of components appended before it in this parse.
C1_AutoPositionIsGridSlot ==
    parsed.status = "returned" =>
        LET decl == Declarations(parsed.code)
        IN  /\ Len(decl) = Len(parsed.components)
            /\ \A i \in DOMAIN decl :
                   decl[i].x.tag = "undefined" =>
                       /\ parsed.components[i].x = Num(100 + ((i - 1) % 7) * 100)
                       /\ parsed.components[i].y = Num(100 + ((i - 1) \div 7) * 100)

\* C2: a component line yields one record with the name verbatim, the type
\* lower-cased, the value token or the empty string, and a written position
\* (x, y) stored exactly, zero included.
C2_RecordAsWritten ==
    parsed.status = "returned" =>
        LET decl == Declarations(parsed.code)
        IN  /\ Len(decl) = Len(parsed.components)
            /\ \A i \in DOMAIN decl :
                   /\ parsed.components[i].name = Join(decl[i].name)
                   /\ parsed.components[i].type = Join(toLowerCase(decl[i].type))
                   /\ parsed.components[i].value =
                          (IF decl[i].value.tag = "undefined" THEN ""
                           ELSE Join(decl[i].value.chars))
                   /\ decl[i].x.tag = "string" =>
                          /\ parsed.components[i].x = Num(decimal(decl[i].x.chars))
                          /\ parsed.components[i].y = Num(decimal(decl[i].y.chars))

\* C3: generateCircuit on a parse result whose types all belong to the
\* validator's enumeration completes without raising and draws one symbol
\* for every component.
C3_ValidTypesRender ==
    (/\ rendered.status # "none"
     /\ \A i \in DOMAIN rendered.components : rendered.components[i].type \in validTypes)
    => /\ rendered.status = "done"
       /\ Len(SelectSeq(svg, LAMBDA e : e.el = "g")) = Len(rendered.components)

\* C4: parseCircuitCode fails with the empty-input error, returning nothing,
\* for every text that holds only spaces and line breaks.
C4_BlankTextIsEmptyInput ==
    (Called /\ Blank(parsed.code)) =>
        /\ parsed.status = "thrown"
        /\ parsed.message = EmptyInput
        /\ parsed.components = <<>> /\ parsed.connections = <<>>

C4_Witness ==
    /\ parsed.status = "thrown" /\ parsed.message = EmptyInput
    /\ Len(parsed.code) > Len(LineBlank)

\* C5: for a text that is not blank, parseCircuitCode fails with the
\* no-components error when the parse produced zero component records, and
\* otherwise returns the two lists.
C5_NoComponentsError ==
    (Called /\ ~Blank(parsed.code)) =>
        IF Len(components) = 0
        THEN parsed.status = "thrown" /\ parsed.message = NoComponents
        ELSE /\ parsed.status = "returned"
             /\ parsed.components = components
             /\ parsed.connections = connections

C5_Witness ==
    /\ parsed.status = "thrown" /\ parsed.message = NoComponents
    /\ Len(connections) > 0

\* C6: whatever calls were made on the engine before, parseCircuitCode(t)
\* gives what a fresh engine gives for t: the same outcome and the same
\* lists, auto-assigned positions included.
C6_ParseIsHistoryFree ==
    Called =>
        \E fresh \in {parseCircuitCode(NewEngine, parsed.code)} :
            /\ parsed = fresh.outcome
            /\ Lists(components, connections) = fresh.engine

\* a parse that returned after an earlier parse had returned other lists
C6_Witness ==
    /\ parsed.status = "returned"
    /\ rendered.status # "none"
    /\ rendered.components # parsed.components
    /\ \E i \in DOMAIN parsed.components : parsed.components[i].x.tag = "object"

\* C7: a component declaration or a connection followed on its line by a
\* '//' comment is parsed as that component or connection.
C7_TrailingCommentIgnored ==
    Called =>
        \A i \in DOMAIN Statements(parsed.code) :
            LET line == Statements(parsed.code)[i]
                stmt == beforeComment(line)
            IN  HasTrailingComment(line) =>
                    /\ IsComponentLine(stmt) =>
                           \E k \in DOMAIN components :
                               components[k].name = Join(componentMatch(stmt).name)
                    /\ IsConnectionLine(stmt) =>
                           \E k \in DOMAIN connections :
                               /\ connections[k].from = Join(connectionMatch(stmt).from)
                               /\ connections[k].to = Join(connectionMatch(stmt).to)

\* C8: every snippet of insertComponent's table, as the only line of the
\* text, is parsed into exactly one component with the name, type and value
\* the snippet states.
C8_SnippetParses ==
    \A t \in ComponentTypes :
        (Called /\ parsed.code = <<"\n">> \o componentCodes[t] \o <<"\n">>) =>
            /\ parsed.status = "returned"
            /\ Len(parsed.components) = 1
            /\ parsed.components[1].name = Stated(componentCodes[t]).name
            /\ parsed.components[1].type = Stated(componentCodes[t]).type
            /\ parsed.components[1].value = Stated(componentCodes[t]).value

\* C9: blank lines and full-line comments contribute nothing: the parse of a
\* text produces the lists (auto-assigned positions included) that the text
\* with all of them removed produces, wherever they stand.
C9_NoiseContributesNothing ==
    Called =>
        \E bare \in {parseCircuitCode(NewEngine, WithoutNoise(parsed.code))} :
            /\ ListsOf(parsed) = ListsOf(bare.outcome)
            /\ Lists(components, connections) = bare.engine

\* an auto-positioned component parsed after a noise line and a component
C9_Witness ==
    /\ parsed.status = "returned"
    /\ Len(parsed.components) >= 2
    /\ parsed.components[2].x.tag = "object"
    /\ \E i \in 2..Len(split(parsed.code)) : Noise(split(parsed.code)[i])
    /\ ~Noise(split(parsed.code)[1])

\* C10: a line matching neither grammar leaves both lists as they are, and
\* connections come only from lines of the '->' grammar: there are as many
\* connections as such lines, and the only errors are the two of the parser.
C10_UnmatchedLineChangesNothing ==
    /\ \A line \in TypedLines :
           (~Noise(line) /\ ~IsComponentLine(trim(line)) /\ ~IsConnectionLine(trim(line)))
           => parseLine(Lists(components, connections), trim(line))
                  = Lists(components, connections)
    /\ Called =>
           /\ Len(connections)
                  = Len(SelectSeq(Statements(parsed.code), IsConnectionLine))
           /\ Len(components)
                  = Len(SelectSeq(Statements(parsed.code), IsComponentLine))
           /\ parsed.status = "thrown" => parsed.message \in {EmptyInput, NoComponents}

\* a parse of a component, a connection and a line of neither grammar that
\* holds no '->'
C10_Witness ==
    /\ parsed.status = "returned"
    /\ Len(components) >= 1
    /\ Len(connections) >= 1
    /\ \E i \in 2..Len(Statements(parsed.code)) :
           LET line == Statements(parsed.code)[i]
           IN  /\ ~IsComponentLine(line) /\ ~IsConnectionLine(line)
               /\ ~includes(line, <<"-", ">">>)
               /\ IsComponentLine(Statements(parsed.code)[1])


-----------------------------------------------------------------------------
(* Properties of the scene *)

\* the wires, the terminal dots and the component symbols of a scene
Wires(scene) == SelectSeq(scene, LAMBDA e : e.el = "line")
Dots(scene) == SelectSeq(scene, LAMBDA e : e.el = "circle")
Symbols(scene) == SelectSeq(scene, LAMBDA e : e.el = "g")

\* a generateCircuit call has been made
Rendered == rendered.status # "none"

\* both endpoints of a connection name a component of the list
Resolves(conn, comps) ==
    /\ \E i \in DOMAIN comps : comps[i].name = conn.from
    /\ \E i \in DOMAIN comps : comps[i].name = conn.to

\* the connections of the last render whose endpoints resolve, and a
\* connection of it that does not
Resolved == SelectSeq(rendered.connections, LAMBDA c : Resolves(c, rendered.components))
HasDangling ==
    \E i \in DOMAIN rendered.connections :
        ~Resolves(rendered.connections[i], rendered.components)

\* C11: a connection naming a component that does not exist is kept by the
\* parser, and generateCircuit draws no wire and no dot for it and raises no
\* error, while every other connection and every component is drawn.
C11_DanglingConnectionHarmless ==
    (Rendered /\ HasDangling) =>
        /\ rendered.status = "done"
        /\ Len(Wires(svg)) = Len(Resolved)
        /\ Len(Dots(svg)) = 2 * Len(Resolved)
        /\ Len(Symbols(svg)) = Len(rendered.components)

\* The part of C11 that speaks of the connections alone: only resolved
\* connections give a wire and two dots, and an error of the render is the
\* error of the component the symbol loop stopped at, whose draw method the
\* class does not define.
DanglingConnectionSkipped ==
    Rendered =>
        /\ Len(Wires(svg)) = Len(Resolved)
        /\ Len(Dots(svg)) = 2 * Len(Resolved)
        /\ rendered.status = "thrown" =>
               /\ Len(Symbols(svg)) < Len(rendered.components)
               /\ drawMethod(rendered.components[Len(Symbols(svg)) + 1].type) \notin DrawMethods
        /\ rendered.status = "done" => Len(Symbols(svg)) = Len(rendered.components)

\* C12: no two component records of one parse result have the same name.
C12_NamesUnique ==
    parsed.status = "returned" =>
        \A i, j \in DOMAIN parsed.components :
            i # j => parsed.components[i].name # parsed.components[j].name

\* the symbol of the i-th component of the last render is the generic
\* rectangle: a box, the upper-cased type written in it, the name label and
\* the value label
GenericSymbol(i) ==
    LET comp == rendered.components[i]
        g == Symbols(svg)[i]
    IN  /\ \E k \in DOMAIN g.shapes : g.shapes[k].el = "rect"
        /\ \E k \in DOMAIN g.shapes :
               /\ g.shapes[k].el = "text"
               /\ g.shapes[k].textContent = Join(toUpperCase(chars(comp.type)))
        /\ g.name = comp.name
        /\ \E k \in DOMAIN g.labels : g.labels[k].textContent = comp.name
        /\ comp.value # "" => \E k \in DOMAIN g.labels : g.labels[k].textContent = comp.value

\* the type has no case in drawComponent's switch
Unmapped(type) == type \notin DOMAIN drawCases

\* C18: a component whose type the renderer does not map is kept by the
\* parser and drawn as the generic rectangle with its upper-cased type, its
\* name and its value, and the render raises no error.
C18_UnmappedTypeDrawnGeneric ==
    Rendered =>
        \A i \in DOMAIN rendered.components :
            Unmapped(rendered.components[i].type) =>
                /\ rendered.status = "done"
                /\ i <= Len(Symbols(svg))
                /\ GenericSymbol(i)

\* The part of C18 that speaks of the component itself: every component of
\* an unmapped type the symbol loop reaches gets the generic rectangle, and
\* the loop never stops at such a component.
UnmappedTypeDrawnWhenReached ==
    Rendered =>
        \A i \in DOMAIN rendered.components :
            Unmapped(rendered.components[i].type) =>
                /\ i <= Len(Symbols(svg)) => GenericSymbol(i)
                /\ rendered.status = "thrown" => i # Len(Symbols(svg)) + 1

\* the text labels a symbol should carry for its component
ExpectedLabels(comp) ==
    <<comp.name>> \o (IF comp.value # "" THEN <<comp.value>> ELSE <<>>)

\* C19: every drawn symbol carries the component's name label and, when the
\* value is not empty, a second label with exactly that value; it carries no
\* value label when the value is empty.
C19_NameAndValueLabels ==
    Rendered =>
        \A i \in DOMAIN Symbols(svg) :
            LET g == Symbols(svg)[i]
            IN  [k \in DOMAIN g.labels |-> g.labels[k].textContent]
                    = ExpectedLabels(rendered.components[i])

\* the layer of a scene element: the grid, the connections, the symbols
layer(e) ==
    IF e.el \in {"defs", "rect"} THEN 0
    ELSE IF e.el \in {"line", "circle"} THEN 1
    ELSE 2

\* C20: in the scene of a render the grid comes before every wire and dot,
\* and every wire and dot before every component symbol; the scene holds one
\* grid and nothing but what this render drew.
C20_GridWiresSymbols ==
    Rendered =>
        /\ \A i, j \in DOMAIN svg : i < j => layer(svg[i]) <= layer(svg[j])
        /\ Len(SelectSeq(svg, LAMBDA e : layer(e) = 0)) = 2
        /\ svg[1].el = "defs" /\ svg[2].el = "rect"
        /\ Len(Wires(svg)) = Len(Resolved)
        /\ Len(Dots(svg)) = 2 * Len(Resolved)
        /\ Len(Symbols(svg)) <= Len(rendered.components)
        /\ \A i \in DOMAIN Symbols(svg) : Symbols(svg)[i].name = rendered.components[i].name

\* a render whose scene holds the grid, a wire with its dots and two symbols
C20_Witness ==
    /\ rendered.status = "done"
    /\ Len(Wires(svg)) >= 1
    /\ Len(Symbols(svg)) >= 2


-----------------------------------------------------------------------------
(* Properties of the validator *)

\* the i-th line of the validated text, trimmed
ValidatedLine(i) == trim(split(validation.code)[i])

ValidatedLines == DOMAIN split(validation.code)

\* the names the validated text declares
DeclaredNames ==
    {Join(componentMatch(ValidatedLine(i)).name) :
        i \in {k \in ValidatedLines : IsComponentLine(ValidatedLine(k))}}

\* the faults of the i-th line: a name declared on an earlier line, a type
\* outside the enumeration, a line that is no statement, an endpoint that no
\* line declares
IsDuplicate(i) ==
    /\ IsComponentLine(ValidatedLine(i))
    /\ \E j \in 1..(i - 1) :
           /\ IsComponentLine(ValidatedLine(j))
           /\ componentMatch(ValidatedLine(j)).name = componentMatch(ValidatedLine(i)).name
IsUnknownType(i) ==
    /\ IsComponentLine(ValidatedLine(i))
    /\ Join(toLowerCase(componentMatch(ValidatedLine(i)).type)) \notin validTypes
IsInvalid(i) ==
    /\ ~Noise(ValidatedLine(i))
    /\ ~IsComponentLine(ValidatedLine(i))
    /\ ~IsConnectionLine(ValidatedLine(i))
IsWire(i) == ~IsComponentLine(ValidatedLine(i)) /\ IsConnectionLine(ValidatedLine(i))
MissingFrom(i) ==
    IsWire(i) /\ Join(connectionMatch(ValidatedLine(i)).from) \notin DeclaredNames
MissingTo(i) ==
    IsWire(i) /\ Join(connectionMatch(ValidatedLine(i)).to) \notin DeclaredNames

Offends(i) ==
    IsDuplicate(i) \/ IsUnknownType(i) \/ IsInvalid(i) \/ MissingFrom(i) \/ MissingTo(i)

\* the number of faults of the i-th line
Faults(i) ==
    Cardinality({f \in {"duplicate", "type", "syntax", "from", "to"} :
        \/ f = "duplicate" /\ IsDuplicate(i)
        \/ f = "type" /\ IsUnknownType(i)
        \/ f = "syntax" /\ IsInvalid(i)
        \/ f = "from" /\ MissingFrom(i)
        \/ f = "to" /\ MissingTo(i)})

\* the diagnostics returned for the i-th line
ErrorsOn(i) == SelectSeq(validation.errors, LAMBDA e : e.line = i)

Validated == validation.status = "returned"

\* C13: validateCircuitCode returns exactly one diagnostic for every line
\* that offends (a duplicate name, an unknown type, invalid syntax, a
\* connection with a missing endpoint) and none for any other line, so the
\* list is empty exactly when no line offends.
C13_OneDiagnosticPerLine ==
    Validated =>
        /\ \A i \in ValidatedLines : Len(ErrorsOn(i)) = IF Offends(i) THEN 1 ELSE 0
        /\ \A k \in DOMAIN validation.errors : validation.errors[k].line \in ValidatedLines
        /\ validation.errors = <<>> <=> \A i \in ValidatedLines : ~Offends(i)

\* C13, amended: validateCircuitCode returns one diagnostic for every fault
\* of a line, so at least one and at most two for a line that offends, and
\* none for any other line; the list is empty exactly when no line offends.
C13_OneDiagnosticPerFault ==
    Validated =>
        /\ \A i \in ValidatedLines :
               /\ Len(ErrorsOn(i)) = Faults(i)
               /\ Offends(i) <=> Len(ErrorsOn(i)) >= 1
               /\ Len(ErrorsOn(i)) <= 2
               /\ IsDuplicate(i) <=> \E k \in DOMAIN ErrorsOn(i) : ErrorsOn(i)[k].kind = DuplicateName
               /\ IsUnknownType(i) <=> \E k \in DOMAIN ErrorsOn(i) : ErrorsOn(i)[k].kind = UnknownType
               /\ IsInvalid(i) <=> \E k \in DOMAIN ErrorsOn(i) : ErrorsOn(i)[k].kind = InvalidSyntax
               /\ (MissingFrom(i) \/ MissingTo(i))
                      <=> \E k \in DOMAIN ErrorsOn(i) : ErrorsOn(i)[k].kind = NotFound
        /\ \A k \in DOMAIN validation.errors : validation.errors[k].line \in ValidatedLines
        /\ validation.errors = <<>> <=> \A i \in ValidatedLines : ~Offends(i)

\* a validated text with a connection neither endpoint of which is declared:
\* its line has two diagnostics
C13_Witness ==
    /\ Validated
    /\ \E i \in ValidatedLines : MissingFrom(i) /\ MissingTo(i) /\ Len(ErrorsOn(i)) = 2


-----------------------------------------------------------------------------
(* Properties of the zoom *)

\* C15: the zoom factor is 1 before any zoom call and stays within 0.5 and
\* 3.0 after every sequence of zoomIn and zoomOut calls; zoomIn at 3.0 and
\* zoomOut at 0.5 leave it as it is.
C15_ZoomWithinLimits ==
    /\ ZoomMin <= zoom /\ zoom <= ZoomMax
    /\ zoomed.op = "none" => zoom = 1000
    /\ (zoomed.op = "zoomIn" /\ zoomed.from = 3000) => zoom = 3000
    /\ (zoomed.op = "zoomOut" /\ zoomed.from = 500) => zoom = 500
    /\ zoomed.op # "none" => zoomed.transform = applyZoom(zoom)

\* zoomIn has been called at the factor 3.0
C15_Witness == zoomed.op = "zoomIn" /\ zoomed.from = 3000 /\ zoom = 3000


-----------------------------------------------------------------------------
(* Properties of the controller *)

\* C16: when generateCircuit of the controller fails, in the parse or in the
\* render, an error notification is shown and the diagram displayed before
\* the call is still displayed, unchanged.
C16_FailureKeepsDiagram ==
    generated.outcome \in {"parse", "render"} =>
        /\ generated.shown.type = "error"
        /\ svg = generated.before

\* The part of C16 that holds: every failure shows an error notification,
\* and a call that fails before the render (blank text, parse error) leaves
\* the scene as it was.
FailureShowsError ==
    /\ generated.outcome \in {"empty", "parse", "render"} => generated.shown.type = "error"
    /\ generated.outcome \in {"empty", "parse"} => svg = generated.before
    /\ generated.outcome = "done" => generated.shown.type = "success"

C14_FailedExportReported ==
    \A i \in DOMAIN exports :
        exports[i].state = "failed" =>
            /\ exports[i].shown.type = "error"
            /\ exports[i].shown.text # "Circuit exported as PNG successfully"


-----------------------------------------------------------------------------
(* Properties of the wires *)

\* the first component of the last render that has the name
Named(name) ==
    rendered.components[CHOOSE i \in DOMAIN rendered.components :
        /\ rendered.components[i].name = name
        /\ \A j \in 1..(i - 1) : rendered.components[j].name # name]

\* the number v is n more than the number u
NumberPlus(v, u, n) == v.tag = "number" /\ u.tag = "number" /\ v.num = u.num + n

\* the k-th resolved connection of the last render has its wire from
\* (from.x + 40, from.y + 20) to (to.x, to.y + 20), with a dot at each end
WireOf(k) ==
    LET from == Named(Resolved[k].from)
        to == Named(Resolved[k].to)
        wire == Wires(svg)[k]
        dot1 == Dots(svg)[2 * k - 1]
        dot2 == Dots(svg)[2 * k]
    IN  /\ NumberPlus(wire.x1, from.x, 40) /\ NumberPlus(wire.y1, from.y, 20)
        /\ NumberPlus(wire.x2, to.x, 0) /\ NumberPlus(wire.y2, to.y, 20)
        /\ dot1.cx = wire.x1 /\ dot1.cy = wire.y1
        /\ dot2.cx = wire.x2 /\ dot2.cy = wire.y2

NumericEnds(k) ==
    LET from == Named(Resolved[k].from)
        to == Named(Resolved[k].to)
    IN  {from.x.tag, from.y.tag, to.x.tag, to.y.tag} = {"number"}

\* The part of C21 that holds: the wires and dots of connections between
\* components that store numbers.
WireCoordinatesOfNumbers ==
    Rendered =>
        /\ Len(Wires(svg)) = Len(Resolved)
        /\ Len(Dots(svg)) = 2 * Len(Resolved)
        /\ \A k \in DOMAIN Resolved : NumericEnds(k) => WireOf(k)

\* a wire between two components positioned in the text has been drawn
WireOfNumbersDrawn ==
    Rendered /\ \E k \in DOMAIN Resolved : NumericEnds(k) /\ WireOf(k)

-----------------------------------------------------------------------------
(* Properties of the controller's generateCircuit *)

\* generateCircuit of main.js has run on a text that is not blank
GeneratedFromText == generated.outcome \in {"parse", "render", "done"}

\* C27: for an editor text that is not blank, the controller's generateCircuit
\* raises no exception to its caller and shows one notification: 'success'
\* when parse and render succeeded, 'error' otherwise.
C27_GenerateNeverRaises ==
    GeneratedFromText =>
        /\ uncaught = {}
        /\ generated.shown # NoMessage
        /\ generated.shown.type = IF generated.outcome = "done" THEN "success" ELSE "error"

\* The part of C27 that holds: the notification of the call.
GenerateNotifies ==
    GeneratedFromText =>
        /\ generated.shown # NoMessage
        /\ generated.shown.type = IF generated.outcome = "done" THEN "success" ELSE "error"
        /\ notification = <<generated.shown>> \/ notification = <<>>

-----------------------------------------------------------------------------
(* Properties of the deferred calls *)

\* the pending callbacks that call generateCircuit: the change listener's
\* and those set by loadExample, insertComponent and loadAdvancedTemplate
DeferredGenerates == SelectSeq(timers, LAMBDA x : x.kind \in {"debounce", "generate"})

\* C28: at most one deferred generateCircuit call is pending at any moment,
\* whichever handler set it, so one change of the text leads to at most one
\* regeneration.
C28_OneDeferredGenerate == Len(DeferredGenerates) <= 1

-----------------------------------------------------------------------------
(* analyzeCircuit of main.js *)

\* errors.join('\n') of the messages validateCircuitCode pushes
errorText(d) ==
    "Line " \o Join(digits(d.line)) \o ": " \o
    (IF d.kind = NotFound THEN "Component '" \o d.subject \o "' not found"
     ELSE IF d.kind = InvalidSyntax THEN d.kind
     ELSE d.kind \o " '" \o d.subject \o "'")

RECURSIVE joinErrors(_)
joinErrors(errors) ==
    IF errors = <<>> THEN ""
    ELSE IF Len(errors) = 1 THEN errorText(errors[1])
    ELSE errorText(errors[1]) \o "\n" \o joinErrors(Tail(errors))

\* analysis.types: the types in the order they first occur, each with the
\* number of components of it
RECURSIVE countTypes(_, _)
countTypes(types, comps) ==
    IF comps = <<>> THEN types
    ELSE LET type == Head(comps).type
         IN  IF \E i \in DOMAIN types : types[i].type = type
             THEN countTypes([i \in DOMAIN types |->
                                 IF types[i].type = type
                                 THEN [types[i] EXCEPT !.count = @ + 1] ELSE types[i]],
                             Tail(comps))
             ELSE countTypes(Append(types, [type |-> type, count |-> 1]), Tail(comps))

\* JSON.stringify(analysis.types)
RECURSIVE members(_)
members(types) ==
    IF types = <<>> THEN ""
    ELSE "\"" \o Head(types).type \o "\":" \o Join(digits(Head(types).count)) \o
         (IF Len(types) = 1 THEN "" ELSE ",") \o members(Tail(types))

stringify(types) == "{" \o members(types) \o "}"

Analysis(comps, conns) ==
    "Circuit Analysis:\n" \o Join(digits(Len(comps))) \o " components, " \o
    Join(digits(Len(conns))) \o " connections\nComponents by type: " \o
    stringify(countTypes(<<>>, comps))

\* analyzeCircuit() after validateCircuitCode returned no error and
\* circuitEngine.parseCircuitCode ended as p: a throw is not caught
analysed(pg, p) ==
    LET lists == [pg EXCEPT !.components = p.engine.components,
                            !.connections = p.engine.connections,
                            !.parsed = p.outcome,
                            !.sim = rebound(@, p.engine)]
    IN  IF p.outcome.status = "thrown"
        THEN [lists EXCEPT !.uncaught = @ \cup {"Error: " \o p.outcome.message}]
        ELSE showMessage(lists, Analysis(p.outcome.components, p.outcome.connections),
                         "success")

\* analyzeCircuit() of main.js, validateCircuitCode having returned errors
analyzeCircuit(pg, errors) ==
    IF errors # <<>>
    THEN showMessage(pg, "Circuit validation found issues:\n" \o joinErrors(errors), "error")
    ELSE the({analysed(pg, p) :
             p \in {parseCircuitCode(Lists(pg.components, pg.connections), pg.code)}})

AnalyzeCircuit ==
    /\ Len(timers) < MaxTimers
    /\ \E errors \in {validateCircuitCode(code)} :
        /\ validation' = [status |-> "returned", code |-> code, errors |-> errors]
        /\ \E pg \in {analyzeCircuit(Page, errors)} : Becomes(pg)
    /\ UNCHANGED <<code, viewVars, exports, now, debounced>>

\* the texts set in the editor in SpecAnalyze: a circuit, a connection to a
\* component that is not declared, a comment alone, a type outside the
\* enumeration, a line of neither grammar
AnalyzeTexts ==
    {LineR1 \o <<"\n">> \o LineLED1 \o <<"\n">> \o LineWire,
     LineR1 \o <<"\n">> \o LineWire,
     LineComment,
     LineU1,
     LineHC1}

NextAnalyze ==
    \/ \E text \in AnalyzeTexts : EditText(text)
    \/ ValidateCircuitCode
    \/ ParseCircuitCode
    \/ GenerateCircuit
    \/ AnalyzeCircuit

SpecAnalyze == Init /\ [][NextAnalyze]_vars

-----------------------------------------------------------------------------
(* Properties of the validator and the parser together *)

\* the validator and the parser have both read the present text
BothRead == Validated /\ Called /\ validation.code = code /\ parsed.code = code

\* the text declares a component
DeclaresComponent == \E i \in DOMAIN Statements(code) : IsComponentLine(Statements(code)[i])

\* the last render drew the lists of the last parse
RenderedParse ==
    /\ Rendered
    /\ rendered.components = parsed.components
    /\ rendered.connections = parsed.connections

\* C26: when validateCircuitCode returns no error for a text with a component
\* line, parseCircuitCode succeeds on the text, makes one record for every
\* line that is neither blank nor a comment, and every connection it returns
\* has both endpoints among the components it returns, so generateCircuit
\* draws a wire for each.
C26_ValidTextParses ==
    (BothRead /\ validation.errors = <<>> /\ DeclaresComponent) =>
        /\ parsed.status = "returned"
        /\ Len(parsed.components) + Len(parsed.connections) = Len(Statements(code))
        /\ \A i \in DOMAIN parsed.connections :
               Resolves(parsed.connections[i], parsed.components)
        /\ RenderedParse =>
               /\ Len(Wires(svg)) = Len(parsed.connections)
               /\ Len(Dots(svg)) = 2 * Len(parsed.connections)

\* a text that passed the validator, with a connection, parsed and rendered
C26_Witness ==
    /\ BothRead /\ validation.errors = <<>> /\ DeclaresComponent
    /\ parsed.connections # <<>>
    /\ RenderedParse
    /\ Len(Wires(svg)) = Len(parsed.connections)

\* C23: the result of validateCircuitCode depends on its text alone, and a
\* call reads and writes no state of the engine: whether it is made before,
\* between or after parses, its result is that of a call on a new page, the
\* engine's lists, scene and zoom are as they were, and every parse returns
\* what a new engine returns on its text.
C23_ValidatorIsPure ==
    [][/\ (validation' # validation /\ parsed' = parsed) =>
              /\ UNCHANGED <<engineVars, viewVars>>
              /\ validation'.errors = validateCircuitCode(code)
       /\ parsed' # parsed => parsed' = parseCircuitCode(NewEngine, code).outcome
       /\ (parsed' # parsed /\ validation' = validation) =>
              /\ components' = parseCircuitCode(NewEngine, code).engine.components
              /\ connections' = parseCircuitCode(NewEngine, code).engine.connections]_vars

\* a validation made between two parses, the engine holding lists
C23_Witness ==
    /\ Validated /\ Called
    /\ components # <<>>
    /\ validation.code # parsed.code
    /\ validation.errors # <<>>

-----------------------------------------------------------------------------
(* The exported document and the zoom *)

\* the zoom steps taken from 1 in either direction in SpecView
MaxZoomSteps == 1

\* new XMLSerializer().serializeToString(svg): the svg element with its
\* inline style, which applyZoom sets, and its children
serializeToString(scene, transform) ==
    [el |-> "svg",
     style |-> IF transform = "" THEN "" ELSE "transform: " \o transform \o ";",
     children |-> scene]

SvgExported == "Circuit exported as SVG successfully"

\* exportSVG() of main.js: circuitEngine.exportSVG() serializes the svg
\* element and downloads the text, which is serializeToString(svg,
\* zoomed.transform) of the state the call is made in
ExportSVG ==
    /\ Len(exports) < MaxExports
    /\ Len(timers) < MaxTimers
    /\ exports' = Append(exports, [state |-> "saved",
                                   shown |-> [text |-> SvgExported, type |-> "success"]])
    /\ \E pg \in {showMessage(Page, SvgExported, "success")} : Becomes(pg)
    /\ UNCHANGED <<code, viewVars, validation, now, debounced>>

\* the texts set in the editor in SpecView
ViewTexts == {LineR1, LineR1 \o <<"\n">> \o LineLED1At \o <<"\n">> \o LineWire}

\* the zoom factors of SpecView: within a thousandth of a whole number of
\* steps, the errors of successive sums not adding up
NearStep(z) == z % ZoomStep \in {0, 1, ZoomStep - 1}

NextView ==
    \/ \E text \in ViewTexts : EditText(text)
    \/ ParseCircuitCode
    \/ GenerateCircuit
    \/ zoom < ZoomOne + MaxZoomSteps * ZoomStep /\ ZoomIn /\ NearStep(zoom')
    \/ zoom > ZoomOne - MaxZoomSteps * ZoomStep /\ ZoomOut /\ NearStep(zoom')
    \/ ExportSVG

SpecView == Init /\ [][NextView]_vars

\* the coordinate data of a serialized document: its elements
Coordinates(doc) == doc.children

\* the document an export serializes in the present state
Document == serializeToString(svg, zoomed.transform)

\* C22: zoomIn and zoomOut change the zoom factor and the scale of the
\* presentation only: the component list, the connection list and every
\* element of the scene are as before, so the coordinate data that an export
\* serializes is the same before and after the call.
C22_ZoomKeepsCoordinates ==
    [][(zoom' # zoom \/ zoomed' # zoomed) =>
           /\ UNCHANGED <<code, engineVars>>
           /\ Coordinates(Document') = Coordinates(Document)
           /\ Document'.style = "transform: " \o applyZoom(zoom') \o ";"]_vars

\* a drawn scene with a wire, zoomed and exported
C22_Witness ==
    /\ zoomed.op # "none"
    /\ zoom # ZoomOne
    /\ Wires(Coordinates(Document)) # <<>>
    /\ Document.style # ""
    /\ exports # <<>>

-----------------------------------------------------------------------------
(* The simulation controls *)

\* the Start, Pause and Reset buttons: startSimulation(), pauseSimulation()
\* and resetSimulation() of the page call the engine's methods
StartSimulation ==
    /\ sim.requested < MaxFrames
    /\ Len(sim.serialOutput) < MaxSerial
    /\ sim' = startSimulation(sim, sim.components)
    /\ components' = seen(sim, sim', components)
    /\ UNCHANGED <<code, connections, parsed, svg, rendered, viewVars, validation,
                   notification, uncaught, button, generated, exports, timeVars>>

PauseSimulation ==
    /\ Len(sim.serialOutput) < MaxSerial
    /\ sim' = pauseSimulation(sim)
    /\ components' = seen(sim, sim', components)
    /\ UNCHANGED <<code, connections, parsed, svg, rendered, viewVars, validation,
                   notification, uncaught, button, generated, exports, timeVars>>

ResetSimulation ==
    /\ Len(sim.virtualObjects) + 2 <= MaxObjects
    /\ sim' = resetSimulation(sim)
    /\ components' = seen(sim, sim', components)
    /\ UNCHANGED <<code, connections, parsed, svg, rendered, viewVars, validation,
                   notification, uncaught, button, generated, exports, timeVars>>

\* the browser runs the callback of a requested frame
AnimationFrame(id) ==
    /\ sim.requested < MaxFrames
    /\ Len(sim.serialOutput) < MaxSerial
    /\ id \in sim.frames
    /\ sim' = frame([sim EXCEPT !.frames = @ \ {id}], sim.components)
    /\ components' = seen(sim, sim', components)
    /\ UNCHANGED <<code, connections, parsed, svg, rendered, viewVars, validation,
                   notification, uncaught, button, generated, exports, timeVars>>

\* LDR1: ldr
LineLDR1 == <<"L","D","R","1",":"," ","l","d","r">>

\* the texts set in the editor in SpecSimulation
SimulationTexts == {LineLED1, LineLDR1}

NextSimulation ==
    \/ \E text \in SimulationTexts : EditText(text)
    \/ ClickGenerate
    \/ StartSimulation
    \/ PauseSimulation
    \/ ResetSimulation
    \/ \E id \in 1..MaxFrames : AnimationFrame(id)

SpecSimulation == Init /\ [][NextSimulation]_vars

-----------------------------------------------------------------------------
(* Properties of the simulation *)

\* C29: under any sequence of startSimulation, pauseSimulation and
\* resetSimulation calls and frame callbacks, at most one frame callback is
\* pending, and a frame callback advances the simulation only when isRunning
\* is true and isPaused is false.
C29_OneFramePending ==
    [][/\ Cardinality(sim'.frames) <= 1
       /\ (sim'.last = "frame" /\ sim' # sim /\
           <<sim'.time, sim'.dataHistory, sim'.sensorData>> #
               <<sim.time, sim.dataHistory, sim.sensorData>>)
              => (sim.isRunning /\ ~sim.isPaused)]_vars

\* a simulation that was paused with a frame pending, started again and has
\* run a frame
C29_Witness ==
    /\ sim.last = "frame"
    /\ sim.time >= 3 * frameTime
    /\ \E i, j \in DOMAIN sim.serialOutput :
           /\ i < j
           /\ sim.serialOutput[i] = "Simulation paused."
           /\ sim.serialOutput[j] = "Simulation started..."
    /\ Cardinality(sim.frames) = 1

\* resetSimulation has been called last, by the Reset button or by
\* generateCircuit
Reset == sim.last = "reset"

\* C30: after resetSimulation the engine is back in its initial state:
\* isRunning and isPaused are false, time is 0, the four history buffers are
\* empty and the virtual-object list holds the two default objects, one wall
\* and one target, however many resets or generations came before.
C30_ResetRestoresInitialState ==
    Reset =>
        /\ ~sim.isRunning /\ ~sim.isPaused /\ sim.time = 0
        /\ sim.dataHistory = NewSimulation.dataHistory
        /\ sim.virtualObjects = <<Wall, Target>>

\* The part of C30 that holds: the flags, the time, the buffers and the
\* pending frame; the list ends with the default objects.
ResetRestoresFlagsAndBuffers ==
    Reset =>
        /\ ~sim.isRunning /\ ~sim.isPaused /\ sim.time = 0
        /\ sim.dataHistory = NewSimulation.dataHistory
        /\ sim.frames = {}
        /\ Len(sim.virtualObjects) >= 4
        /\ SubSeq(sim.virtualObjects, Len(sim.virtualObjects) - 1, Len(sim.virtualObjects))
               = <<Wall, Target>>

\* a step of the simulation engine alone: a control or a frame callback
\* (generateCircuit of main.js sets a timer for its message)
SimulationStep == sim' # sim /\ timers' = timers /\ parsed' = parsed

\* C25: the simulation engine only reads the list handed to setComponents:
\* no start, pause, reset or frame step changes the list or a record of it,
\* and no such step changes the state of circuitEngine or the diagram.
C25_SimulationOnlyReads ==
    [][SimulationStep =>
           /\ sim'.components = sim.components
           /\ sim'.aliased = sim.aliased
           /\ UNCHANGED <<engineVars, viewVars>>]_vars

\* a frame has run on a list that generateCircuit handed over, which is the
\* engine's own
C25_Witness ==
    /\ sim.last = "frame"
    /\ sim.time > 0
    /\ sim.aliased
    /\ sim.components # <<>>
    /\ sim.components = components
    /\ Len(sim.serialOutput) + sim.dataHistory.light > 4

-----------------------------------------------------------------------------
(* The lists a parse returned, held by others *)

NextAlias ==
    \/ \E text \in SimulationTexts : EditText(text)
    \/ ClickGenerate
    \/ ParseCircuitCode
    \/ GenerateCircuit
    \/ zoom < ZoomOne + MaxZoomSteps * ZoomStep /\ ZoomIn /\ NearStep(zoom')
    \/ zoom > ZoomOne - MaxZoomSteps * ZoomStep /\ ZoomOut /\ NearStep(zoom')
    \/ ExportSVG

SpecAlias == Init /\ [][NextAlias]_vars

\* C24: every parseCircuitCode call leaves the lists of earlier calls as they
\* are and builds new ones: the list a call returned, which the simulation
\* engine holds, is not changed by a later parse, and generateCircuit, zoom
\* and export change no component or connection record.
C24_ResultsAreNotModified ==
    [][/\ sim'.components # sim.components =>
              /\ generated'.outcome = "done" /\ timers' # timers
              /\ sim'.components = parsed'.components
       /\ (zoom' # zoom \/ zoomed' # zoomed \/ exports' # exports
               \/ (rendered' # rendered /\ timers' = timers)) =>
              /\ UNCHANGED <<components, connections, parsed>>
              /\ sim'.components = sim.components
       /\ rendered' # rendered =>
              /\ rendered'.components = parsed'.components
              /\ rendered'.connections = parsed'.connections
              /\ components' = parsed'.components
              /\ connections' = parsed'.connections]_vars

\* the simulation engine holds the list of an earlier call, a later parse
\* has returned another, and the scene was drawn, zoomed and exported
C24_Witness ==
    /\ sim.components # <<>>
    /\ ~sim.aliased
    /\ parsed.status = "returned"
    /\ parsed.components # sim.components
    /\ rendered.components = parsed.components
    /\ zoomed.op # "none"
    /\ exports # <<>>

=============================================================================
